---------------------------- MODULE Spec2Model ----------------------------
(***************************************************************************)
(* A model of the LINE bookkeeping bot of src/main.py: the message router  *)
(* (handle_message), the record pipeline (handle_nlp_record), the bare     *)
(* delete (handle_delete_last_record) and the preview / confirm delete     *)
(* workflow (handle_advanced_delete_nlp, handle_confirm_delete), the      *)
(* category and budget commands (handle_add_category,                      *)
(* handle_delete_category, handle_set_budget, check_budget_warning) over   *)
(* the Transactions, Categories and Budgets sheets and                     *)
(* delete_preview_cache.                                                   *)
(*                                                                         *)
(* Strings are sequences of tokens.  A token stands for an indivisible run *)
(* of characters of the source text, so that Python's substring test       *)
(* `a in b` is "a is a contiguous subsequence of b".  The Chinese words of *)
(* the source are written in ASCII:                                        *)
(*   "confirm" = U+78BA U+8A8D, "delete" = U+522A U+9664,                  *)
(*   "shandiao" = U+522A U+6389, "bangwoba" = U+5E6B U+6211 U+628A,        *)
(*   "addcat" = U+65B0 U+589E U+985E U+5225, "pet" = U+5BF5 U+7269,        *)
(*   "delcat" = U+522A U+9664 U+985E U+5225 (it contains "delete"),        *)
(*   "budget" = U+9810 U+7B97, "setbudget" = U+8A2D U+5B9A U+9810 U+7B97,  *)
(*   "chazhang" = U+67E5 U+5E33, "yuejie" = U+6708 U+7D50,                 *)
(*   "budgetdrink635" = U+9810 U+7B97 U+98F2 U+6599 "635" (no spaces),     *)
(*   and the categories of DEFAULT_CATEGORIES in order                     *)
(*   "food", "drink", "transport", "fun", "shopping", "daily", "misc",     *)
(*   "income".                                                             *)
(* A date string 'YYYY-MM-DD' is the tuple <<y, m, d>>; the empty string   *)
(* is << >>; a string strptime rejects is a tuple of another length.       *)
(* A sheet is the sequence of its data rows: data row i is gspread row     *)
(* i + 1, row 1 being the header.                                          *)
(***************************************************************************)
EXTENDS Integers, Sequences, FiniteSets, TLC

VARIABLES
    header,                \* row 1 of the Transactions sheet: the column names
    trx,                   \* data rows of the Transactions sheet
    cat_rows,              \* data rows of the Categories sheet
    budget_rows,           \* data rows of the Budgets sheet
    delete_preview_cache,  \* user id -> pending preview, or NoPreview
    confirms,              \* request thread -> where its confirm is, what it did
    now,                   \* send time of the next message, in seconds
    ticks,                 \* how often the clock advanced (bounds the model)
    pv,                    \* history: per user, what the pending preview was asked for
    msg,                   \* the text of the message just handled
    user_intent,           \* what its classification gave, "" when there was none
    replied,               \* the reply_message calls made for it, in order
    last                   \* what the handler of that message did

vars ==
    <<header, confirms, trx, cat_rows, budget_rows, delete_preview_cache, now, ticks, pv, msg,
      user_intent, replied, last>>

-----------------------------------------------------------------------------
(* Bounds of the model *)

MaxRows == 2       \* rows the Transactions sheet may hold
MaxTicks == 2      \* clock advances
MaxDrafts == 2     \* drafts in one answer of the extraction oracle

(* Program constants *)

PreviewTTL == 300      \* handle_confirm_delete: total_seconds() > 300
DisplayMax == 5        \* handle_advanced_delete_nlp: min(5, total_count)

Users == {"u1", "u2"}

\* the request threads of the server that may handle a confirm each
Threads == {"t1", "t2"}

\* a thread that handles no confirm: phase "idle", later "deleting" (inside
\* the loop over the delete_rows calls) and "finished"; todo are the calls
\* still to make, refs the row references it read from the pending preview,
\* done the rows its calls removed
NoConfirm ==
    [phase |-> "idle", uid |-> "", todo |-> << >>, refs |-> << >>,
     keyword |-> << >>, start_date |-> << >>, end_date |-> << >>, done |-> << >>]

\* the column names ensure_worksheets writes, and those of a sheet of an
\* earlier version whose timestamp column is named "time" (U+6642 U+9593)
\* instead of "date" (U+65E5 U+671F)
NewHeader == <<"date", "category", "amount", "uid", "name", "notes">>
LegacyHeader == <<"time", "category", "amount", "uid", "name", "notes">>

\* list.index(name), 0 where it raises ValueError; dict.get(name, -1) with 0
\* for -1
IndexOf(h, name) ==
    IF \E i \in DOMAIN h : h[i] = name
    THEN CHOOSE i \in DOMAIN h : h[i] = name /\ \A j \in 1..(i - 1) : h[j] # name
    ELSE 0

\* the cells of a data row as append_row wrote them, by position
Cells(row) == <<row.date, row.category, row.amount, row.uid, "name", row.notes>>

\* r[idx]; the code reads no cell at an index it did not find
Cell(row, idx) == IF idx = 0 THEN << >> ELSE Cells(row)[idx]

DEFAULT_CATEGORIES ==
    <<"food", "drink", "transport", "fun", "shopping", "daily", "misc", "income">>

NoPreview == [none |-> TRUE]

-----------------------------------------------------------------------------
(* Sequences and strings *)

Range(s) == {s[i] : i \in DOMAIN s}

\* Python: a in b, for strings (the empty string is in every string)
Contains(b, a) ==
    \E i \in 0..(Len(b) - Len(a)) :
        \A j \in 1..Len(a) : b[i + j] = a[j]

\* s without its i-th element
RemoveAt(s, i) == [j \in 1..(Len(s) - 1) |-> IF j < i THEN s[j] ELSE s[j + 1]]

\* the elements of s that are in set keep, in the order of s
RECURSIVE SelectIdx(_, _, _)
SelectIdx(s, keep, i) ==
    IF i > Len(s) THEN << >>
    ELSE IF i \in keep THEN <<s[i]>> \o SelectIdx(s, keep, i + 1)
         ELSE SelectIdx(s, keep, i + 1)

\* Python: [x for x in s if x not in drop]
RECURSIVE Filter(_, _)
Filter(s, drop) ==
    IF s = << >> THEN << >>
    ELSE IF Head(s) \in drop THEN Filter(Tail(s), drop)
         ELSE <<Head(s)>> \o Filter(Tail(s), drop)


-----------------------------------------------------------------------------
(* Numbers in texts: a token that is a run of digits, and int() of it *)

NumTable ==
    {<<"0", 0>>, <<"1", 1>>, <<"2", 2>>, <<"3", 3>>, <<"4", 4>>, <<"5", 5>>,
     <<"6", 6>>, <<"7", 7>>, <<"8", 8>>, <<"60", 60>>, <<"80", 80>>, <<"180", 180>>,
     <<"59", 59>>, <<"135", 135>>, <<"635", 635>>}

IsNum(t) == \E p \in NumTable : p[1] = t

IntOf(t) == (CHOOSE p \in NumTable : p[1] = t)[2]

NumTokens == {p[1] : p \in NumTable}

-----------------------------------------------------------------------------
(* Dates *)

\* datetime.strptime(s[:10], '%Y-%m-%d') succeeds
DateParses(s) == Len(s) = 3

\* a < b on dates
DateLess(a, b) ==
    \/ a[1] < b[1]
    \/ a[1] = b[1] /\ a[2] < b[2]
    \/ a[1] = b[1] /\ a[2] = b[2] /\ a[3] < b[3]

-----------------------------------------------------------------------------
(* The Ledger Store: gspread calls on a sheet *)

\* sheet.append_row(row)
AppendRow(rows, row) == Append(rows, row)

\* sheet.delete_rows(n): n is a gspread row number; rows below shift up by one
DeleteRows(rows, n) ==
    IF n >= 2 /\ n <= Len(rows) + 1 THEN RemoveAt(rows, n - 1) ELSE rows

-----------------------------------------------------------------------------
(* Category Registry *)

\* list(dict.fromkeys(s)): first occurrences, in order
RECURSIVE Dedup(_, _)
Dedup(s, seen) ==
    IF s = << >> THEN << >>
    ELSE IF Head(s) \in seen THEN Dedup(Tail(s), seen)
         ELSE <<Head(s)>> \o Dedup(Tail(s), seen \cup {Head(s)})

\* the custom categories of a user, in sheet order
RECURSIVE CustomCats(_, _)
CustomCats(rows, uid) ==
    IF rows = << >> THEN << >>
    ELSE IF Head(rows).uid = uid /\ Head(rows).category # ""
         THEN <<Head(rows).category>> \o CustomCats(Tail(rows), uid)
         ELSE CustomCats(Tail(rows), uid)

\* the defaults and the custom categories of every user
CategoriesOfAll(rows, uid, readOk) ==
    Dedup(DEFAULT_CATEGORIES \o [i \in DOMAIN rows |-> rows[i].category], {})

\* get_user_categories; readOk = FALSE is get_all_records raising
get_user_categories(rows, uid, readOk) ==
    IF readOk THEN Dedup(DEFAULT_CATEGORIES \o CustomCats(rows, uid), {})
    ELSE DEFAULT_CATEGORIES

\* len() of the names texts carry: a token is a name, "" a blank one
NameTable ==
    {<<"", 0>>, <<"pet", 2>>, <<"food", 2>>, <<"tenletters", 10>>,
     <<"longname", 11>>}

\* a length that is one short
NameLenLessOne(name) == (CHOOSE p \in NameTable : p[1] = name)[2] - 1

NameLen(name) == (CHOOSE p \in NameTable : p[1] = name)[2]

MaxNameLen == 10       \* handle_add_category: len(new_cat) > 10

-----------------------------------------------------------------------------
(* Observations and history *)

NoPv == [pending |-> FALSE]

\* what a step leaves in `last`: the handler that ran, for whom, its reply,
\* and what it did
Obs(op, uid, reply) ==
    [op |-> op, uid |-> uid, reply |-> reply,
     serial |-> -1,        \* the ordinal a confirm parsed, -1 for none
     age |-> -1,           \* a confirm with a pending preview: event_time - cache_time
     total |-> 0,          \* a confirm: len(all_rows) of the preview it found
     fresh |-> FALSE,      \* a confirm: the ledger is as it was at the preview
     calls |-> << >>,      \* the delete_rows calls issued, in order
     failed |-> {},        \* positions in calls of the calls that raised; a
                           \* record: the draft whose append_row raised
     records |-> << >>,    \* a record: the drafts after the collapse
     lines |-> << >>,      \* a record: the summary lines of the reply
     warnings |-> << >>,   \* a record: the budget warnings in the reply
     oracle |-> "",        \* a record, a chat: how the handler's oracle call
                           \* ended ("error", "nonjson", "json", "text")
     drafts |-> << >>,     \* a collapse: the drafts it was given
     report |-> << >>]     \* a report: <<the figures of the reply>>

\* pv after a step of user uid: a changed ledger makes every pending preview stale
Touch(p, changed) ==
    [v \in Users |->
        IF p[v].pending /\ changed THEN [p[v] EXCEPT !.fresh = FALSE] ELSE p[v]]

-----------------------------------------------------------------------------
(* handle_confirm_delete *)

\* a confirm that reads no ordinal from any text
HasNoOrdinal(text) == FALSE

\* re.search(r'(confirm delete|delete)\s*(\d+)', text): the leftmost "delete"
\* that a number follows
OrdinalAt(text) ==
    {i \in 1..(Len(text) - 1) : text[i] = "delete" /\ IsNum(text[i + 1])}

HasOrdinal(text) == OrdinalAt(text) # {}

Ordinal(text) ==
    LET i == CHOOSE k \in OrdinalAt(text) : \A m \in OrdinalAt(text) : k <= m
    IN  IntOf(text[i + 1])

\* sorted(s, reverse=True), s a sequence of numbers
RECURSIVE SortedDesc(_)
SortedDesc(s) ==
    IF s = << >> THEN << >>
    ELSE LET i == CHOOSE k \in DOMAIN s : \A m \in DOMAIN s : s[m] <= s[k]
         IN  <<s[i]>> \o SortedDesc(RemoveAt(s, i))

\* sorted(s), s a sequence of numbers: the opposite order
RECURSIVE SortedAsc(_)
SortedAsc(s) ==
    IF s = << >> THEN << >>
    ELSE LET i == CHOOSE k \in DOMAIN s : \A m \in DOMAIN s : s[k] <= s[m]
         IN  <<s[i]>> \o SortedAsc(RemoveAt(s, i))

\* the order in which a confirm issues its delete_rows calls
DeleteOrder(s) == SortedDesc(s)

\* the loop over the calls from the i-th on; a call in `failed` raises and is logged
RECURSIVE ApplyDeletes(_, _, _, _)
ApplyDeletes(rows, calls, failed, i) ==
    IF i > Len(calls) THEN rows
    ELSE ApplyDeletes(IF i \in failed THEN rows ELSE DeleteRows(rows, calls[i]),
                      calls, failed, i + 1)

\* rows_to_delete that stops at the rows the preview displayed
RowsToDeleteShown(cache_data, text) ==
    IF HasOrdinal(text) THEN <<cache_data.mapping[Ordinal(text)]>>
    ELSE [i \in DOMAIN cache_data.mapping |-> cache_data.mapping[i]]

\* rows_to_delete: the row of the ordinal, or every cached row
RowsToDelete(cache_data, text) ==
    IF HasOrdinal(text) THEN <<cache_data.mapping[Ordinal(text)]>>
    ELSE cache_data.all_rows

\* a TTL test that is one second late
ExpiredLate(event_time, cache_time) == event_time - cache_time > PreviewTTL + 1

\* the preview is older than the TTL
Expired(event_time, cache_time) == event_time - cache_time > PreviewTTL

handle_confirm_delete(uid, text, failed) ==
    LET cache_data == delete_preview_cache[uid] IN
    IF cache_data = NoPreview
    THEN /\ last' = Obs("confirm", uid, "no_preview")
         /\ UNCHANGED <<trx, delete_preview_cache, pv>>
    ELSE
    LET age == now - cache_data.timestamp
        o == [Obs("confirm", uid, "done") EXCEPT
                 !.age = age, !.total = Len(cache_data.all_rows),
                 !.fresh = pv[uid].fresh]
    IN
    IF Expired(now, cache_data.timestamp)
    THEN /\ delete_preview_cache' = [delete_preview_cache EXCEPT ![uid] = NoPreview]
         /\ pv' = [pv EXCEPT ![uid] = NoPv]
         /\ last' = [o EXCEPT !.reply = "expired"]
         /\ UNCHANGED trx
    ELSE IF HasOrdinal(text) /\ Ordinal(text) \notin DOMAIN cache_data.mapping
    THEN /\ last' = [o EXCEPT !.reply = "bad_ordinal", !.serial = Ordinal(text)]
         /\ UNCHANGED <<trx, delete_preview_cache, pv>>
    ELSE
    LET rows_to_delete == RowsToDelete(cache_data, text)
        calls == DeleteOrder(rows_to_delete)
        serial == IF HasOrdinal(text) THEN Ordinal(text) ELSE -1
    IN
    IF rows_to_delete = << >>
    THEN /\ delete_preview_cache' = [delete_preview_cache EXCEPT ![uid] = NoPreview]
         /\ pv' = [pv EXCEPT ![uid] = NoPv]
         /\ last' = [o EXCEPT !.reply = "nothing_cached"]
         /\ UNCHANGED trx
    ELSE /\ failed \subseteq DOMAIN calls
         /\ trx' = ApplyDeletes(trx, calls, failed, 1)
         /\ delete_preview_cache' = [delete_preview_cache EXCEPT ![uid] = NoPreview]
         /\ pv' = [Touch(pv, trx' # trx) EXCEPT ![uid] = NoPv]
         /\ last' = [o EXCEPT !.serial = serial, !.calls = calls, !.failed = failed]

-----------------------------------------------------------------------------
(* handle_delete_last_record *)

\* the gspread row of the first row of uid, 0 when there is none
FirstRowOf(rows, uid) ==
    LET mine == {i \in DOMAIN rows : rows[i].uid = uid}
    IN  IF mine = {} THEN 0
        ELSE (CHOOSE i \in mine : \A j \in mine : i <= j) + 1

\* the gspread row of the last row of uid, 0 when there is none
LastRowOf(rows, uid) ==
    LET mine == {i \in DOMAIN rows : rows[i].uid = uid}
    IN  IF mine = {} THEN 0
        ELSE (CHOOSE i \in mine : \A j \in mine : j <= i) + 1

\* readOk, deleteOk = FALSE: get_all_values, delete_rows raising
handle_delete_last_record(uid, readOk, deleteOk) ==
    LET row_to_delete == LastRowOf(trx, uid) IN
    /\ UNCHANGED delete_preview_cache
    /\ IF ~readOk
       THEN /\ last' = Obs("delete_last", uid, "error")
            /\ UNCHANGED <<trx, pv>>
       ELSE IF row_to_delete = 0
       THEN /\ last' = Obs("delete_last", uid, "no_record")
            /\ UNCHANGED <<trx, pv>>
       ELSE IF ~deleteOk
       THEN /\ last' = [Obs("delete_last", uid, "error") EXCEPT
                           !.calls = <<row_to_delete>>, !.failed = {1}]
            /\ UNCHANGED <<trx, pv>>
       ELSE /\ trx' = DeleteRows(trx, row_to_delete)
            /\ pv' = Touch(pv, TRUE)
            /\ last' = [Obs("delete_last", uid, "deleted") EXCEPT
                           !.calls = <<row_to_delete>>]

-----------------------------------------------------------------------------
(* handle_advanced_delete_nlp *)

\* the words the fallback strips from the text before it is used as keyword
StripWords == {"shandiao", "delete", "bangwoba"}

\* full_text.replace(...) of the three words, then re.sub(r'[\d$]+', '', ...)
FallbackKeyword(text) == Filter(text, StripWords \cup NumTokens)

\* one row of the scan: the owner, the keyword in category or notes, the date
\* in [start_dt, end_dt]; a row with an empty date passes the date test, a row
\* whose date does not parse fails it
RowMatches(row, uid, keyword, start_date, end_date) ==
    /\ row.uid = uid
    /\ keyword # << >> =>
          \/ Contains(<<row.category>>, keyword)
          \/ Contains(row.notes, keyword)
    /\ (start_date # << >> \/ end_date # << >>) /\ row.date # << >> =>
          /\ DateParses(row.date)
          /\ start_date # << >> => ~DateLess(row.date, start_date)
          /\ end_date # << >> => ~DateLess(end_date, row.date)

\* all_gsheet_rows: the gspread rows of the matches, in scan order
RECURSIVE ScanFrom(_, _, _, _, _, _)
ScanFrom(rows, uid, keyword, start_date, end_date, i) ==
    IF i > Len(rows) THEN << >>
    ELSE (IF RowMatches(rows[i], uid, keyword, start_date, end_date)
          THEN <<i + 1>> ELSE << >>)
         \o ScanFrom(rows, uid, keyword, start_date, end_date, i + 1)

MatchedRows(rows, uid, keyword, start_date, end_date) ==
    ScanFrom(rows, uid, keyword, start_date, end_date, 1)

\* a lookup that knows the column name "date" only
DateColumnOnly(h) == IndexOf(h, "date")

\* idx_time: header.index of "date", and of "time" when that raises
TimeColumn(h) ==
    IF IndexOf(h, "date") # 0 THEN IndexOf(h, "date") ELSE IndexOf(h, "time")

\* the rows as the scan reads them: record_datetime_str = row[idx_time]
ReadUnder(h, rows) ==
    [i \in DOMAIN rows |-> [rows[i] EXCEPT !.date = Cell(rows[i], TimeColumn(h))]]

\* a mapping that numbers the displayed rows from the bottom
CacheMappingReversed(all_rows) ==
    LET display_count == IF Len(all_rows) < DisplayMax THEN Len(all_rows)
                         ELSE DisplayMax
    IN  [i \in 1..display_count |-> all_rows[display_count + 1 - i]]

\* cache_mapping: serial number -> gspread row, for the rows displayed
CacheMapping(all_rows) ==
    LET display_count == IF Len(all_rows) < DisplayMax THEN Len(all_rows)
                         ELSE DisplayMax
    IN  [i \in 1..display_count |-> all_rows[i]]

\* nlp is the answer of call_search_nlp (status "failure" covers the call
\* raising and JSON that does not parse); readOk = FALSE is get_all_values raising
handle_advanced_delete_nlp(uid, text, nlp, readOk) ==
    LET none == nlp.keyword = << >> /\ nlp.start_date = << >> /\ nlp.end_date = << >>
        keyword == IF none THEN FallbackKeyword(text) ELSE nlp.keyword
        datesOk == /\ nlp.start_date # << >> => DateParses(nlp.start_date)
                   /\ nlp.end_date # << >> => DateParses(nlp.end_date)
        all_rows == MatchedRows(ReadUnder(header, trx), uid, keyword,
                                nlp.start_date, nlp.end_date)
    IN
    /\ UNCHANGED trx
    /\ IF nlp.status = "failure"
       THEN /\ last' = Obs("preview", uid, "nlp_failure")
            /\ UNCHANGED <<delete_preview_cache, pv>>
       ELSE IF none /\ keyword = << >>
       THEN /\ last' = Obs("preview", uid, "no_criteria")
            /\ UNCHANGED <<delete_preview_cache, pv>>
       ELSE IF ~readOk \/ TimeColumn(header) = 0 \/ ~datesOk
       THEN /\ last' = Obs("preview", uid, "error")
            /\ UNCHANGED <<delete_preview_cache, pv>>
       ELSE IF all_rows = << >>
       THEN /\ last' = Obs("preview", uid, "not_found")
            /\ UNCHANGED <<delete_preview_cache, pv>>
       ELSE /\ delete_preview_cache' =
                 [delete_preview_cache EXCEPT ![uid] =
                     [timestamp |-> now,
                      mapping |-> CacheMapping(all_rows),
                      all_rows |-> all_rows]]
            /\ pv' = [pv EXCEPT ![uid] =
                         [pending |-> TRUE, fresh |-> TRUE, keyword |-> keyword,
                          start_date |-> nlp.start_date, end_date |-> nlp.end_date]]
            /\ last' = [Obs("preview", uid, "preview") EXCEPT
                           !.total = Len(all_rows)]

-----------------------------------------------------------------------------
(* Amount Expression Evaluator: _parse_amount_expr                          *)
(* The expression is a token sequence over numbers, "+", "-", "*", "x",     *)
(* "X" and "**" (two adjacent stars).  A result is [ok, val, pos]: ok is    *)
(* FALSE where Python's eval raises SyntaxError, pos is the next token.     *)

\* expr.replace('x', '*').replace('X', '*') and the full-width operators
\* ("fw+" = U+FF0B, "fw-" = U+FF0D, "fw*" = U+FF0A) to the ASCII ones
NormalizeOps(expr) ==
    [i \in DOMAIN expr |->
        IF expr[i] \in {"x", "X", "fw*"} THEN "*"
        ELSE IF expr[i] = "fw+" THEN "+"
        ELSE IF expr[i] = "fw-" THEN "-"
        ELSE expr[i]]

\* re.fullmatch(r"[0-9\.\+\-\*\s]+", expr_std)
ExprChars(expr) ==
    /\ expr # << >>
    /\ \A i \in DOMAIN expr : IsNum(expr[i]) \/ expr[i] \in {"+", "-", "*", "**"}

RECURSIVE Power(_, _)
Power(b, e) == IF e <= 0 THEN 1 ELSE b * Power(b, e - 1)

NoParse == [ok |-> FALSE, val |-> 0, pos |-> 0]

RECURSIVE ParseFactor(_, _)
\* factor: ('+' | '-') factor | NUMBER ['**' factor]
ParseFactor(t, i) ==
    IF i > Len(t) THEN NoParse
    ELSE IF t[i] \in {"+", "-"} THEN
        LET r == ParseFactor(t, i + 1)
        IN  IF r.ok /\ t[i] = "-" THEN [r EXCEPT !.val = 0 - r.val] ELSE r
    ELSE IF ~IsNum(t[i]) THEN NoParse
    ELSE IF i + 1 <= Len(t) /\ t[i + 1] = "**" THEN
        LET e == ParseFactor(t, i + 2)
        IN  IF e.ok /\ e.val >= 0
            THEN [ok |-> TRUE, val |-> Power(IntOf(t[i]), e.val), pos |-> e.pos]
            ELSE NoParse
    ELSE [ok |-> TRUE, val |-> IntOf(t[i]), pos |-> i + 1]

RECURSIVE ParseTermRest(_, _)
\* term: factor ('*' factor)*, acc the product so far
ParseTermRest(t, acc) ==
    IF acc.pos <= Len(t) /\ t[acc.pos] = "*" THEN
        LET f == ParseFactor(t, acc.pos + 1)
        IN  IF f.ok THEN ParseTermRest(t, [f EXCEPT !.val = acc.val * f.val])
            ELSE NoParse
    ELSE acc

ParseTerm(t, i) ==
    LET f == ParseFactor(t, i) IN IF f.ok THEN ParseTermRest(t, f) ELSE NoParse

RECURSIVE ParseExprRest(_, _)
\* expr: term (('+' | '-') term)*, acc the sum so far
ParseExprRest(t, acc) ==
    IF acc.pos <= Len(t) /\ t[acc.pos] \in {"+", "-"} THEN
        LET f == ParseTerm(t, acc.pos + 1)
        IN  IF f.ok
            THEN ParseExprRest(t, [f EXCEPT !.val =
                     IF t[acc.pos] = "+" THEN acc.val + f.val ELSE acc.val - f.val])
            ELSE NoParse
    ELSE acc

\* eval(expr_std): the whole text must be one expression
EvalExpr(t) ==
    LET f == ParseTerm(t, 1)
        r == IF f.ok THEN ParseExprRest(t, f) ELSE NoParse
    IN  IF r.ok /\ r.pos = Len(t) + 1 THEN r ELSE NoParse

\* _parse_amount_expr: [ok |-> FALSE] is None
parse_amount_expr(expr) ==
    LET expr_std == NormalizeOps(expr)
    IN  IF ExprChars(expr_std) THEN EvalExpr(expr_std) ELSE NoParse

-----------------------------------------------------------------------------
(* _try_collapse_add_expr_from_text *)

\* float(x) of a draft amount: <<n>> is a value that parses to n, << >> one
\* on which float() raises
Parses(amount) == amount # << >>

FloatOf(amount) == amount[1]

\* re.search(r"\d", text): the first token that is a number, 0 for none
FirstDigit(text) ==
    LET at == {i \in DOMAIN text : IsNum(text[i])}
    IN  IF at = {} THEN 0 ELSE CHOOSE i \in at : \A j \in at : i <= j

try_collapse(text, records) ==
    LET m == FirstDigit(text)
        prefix == SubSeq(text, 1, m - 1)
        val == parse_amount_expr(SubSeq(text, m, Len(text)))
        same_cat == Cardinality({records[i].category : i \in DOMAIN records}) = 1
        plus == Cardinality({i \in DOMAIN records : FloatOf(records[i].amount) > 0})
        sign == IF plus > Len(records) - plus THEN 1 ELSE -1
    IN  IF m = 0 THEN records
        ELSE IF ~val.ok THEN records
        ELSE IF Len(records) < 2 THEN records
        ELSE IF ~same_cat THEN records
        ELSE IF \E i \in DOMAIN records : ~Parses(records[i].amount) THEN records
        ELSE <<[datetime |-> records[1].datetime,
                category |-> records[1].category,
                amount |-> <<val.val * sign>>,
                notes |-> IF prefix # << >> THEN prefix ELSE records[1].notes]>>

-----------------------------------------------------------------------------
(* handle_nlp_record *)

FallbackCategory == "misc"

\* no repair: the category as the oracle gave it
KeepCategory(category, user_categories) == category

\* the category a draft is written with
RepairCategory(category, user_categories) ==
    IF category \in Range(user_categories) THEN category ELSE FallbackCategory

\* the notes a draft is written with: f"({category}) {notes}" on a repair
RepairNotes(category, notes, user_categories) ==
    IF category \in Range(user_categories) THEN notes
    ELSE <<"(", category, ")">> \o notes

\* the draft is skipped: "zero", "bad" (float() raises), or "" when it is written
SkipReason(amount) ==
    IF ~Parses(amount) THEN "bad"
    ELSE IF FloatOf(amount) = 0 THEN "zero"
    ELSE ""

\* the row append_row is called with (the cached display name is left out)
RowOf(record, uid, user_categories) ==
    [date |-> record.datetime,
     category |-> RepairCategory(record.category, user_categories),
     amount |-> FloatOf(record.amount),
     uid |-> uid,
     notes |-> RepairNotes(record.category, record.notes, user_categories)]

\* the loop over the drafts from the i-th on.  st = [rows, lines, appends,
\* raised, at]: the sheet, the summary lines, the append_row calls made, whether
\* one raised, and for which draft.  failAt is the append_row call that raises
\* (0: none does).
RECURSIVE RecordLoop(_, _, _, _, _, _)
RecordLoop(records, uid, user_categories, failAt, i, st) ==
    IF i > Len(records) \/ st.raised THEN st
    ELSE LET r == records[i]
             skip == SkipReason(r.amount)
         IN  IF skip # ""
             THEN RecordLoop(records, uid, user_categories, failAt, i + 1,
                      [st EXCEPT !.lines = Append(@, skip)])
             ELSE IF st.appends + 1 = failAt
             THEN [st EXCEPT !.raised = TRUE, !.at = i]
             ELSE RecordLoop(records, uid, user_categories, failAt, i + 1,
                      [st EXCEPT
                          !.rows = AppendRow(@, RowOf(r, uid, user_categories)),
                          !.lines = Append(@, "written"),
                          !.appends = @ + 1])

\* any(float(r['amount']) > 0 for r in records) raises: an amount float()
\* rejects comes before every positive one
AnyIncomeRaises(records) ==
    \E i \in DOMAIN records :
        /\ ~Parses(records[i].amount)
        /\ \A j \in 1..(i - 1) : FloatOf(records[j].amount) <= 0

\* resp is the answer of the extraction oracle: kind "error" (the call raises),
\* "nonjson" (json.loads raises) or "json" with its status and data.
\* catReadOk = FALSE is the Categories read raising; cap bounds the sheet.
handle_nlp_record(uid, text, resp, catReadOk, failAt, cap) ==
    LET user_categories == get_user_categories(cat_rows, uid, catReadOk)
        records == try_collapse(text, resp.data)
        st == RecordLoop(records, uid, user_categories, failAt, 1,
                  [rows |-> trx, lines |-> << >>, appends |-> 0, raised |-> FALSE,
                   at |-> 0])
        o == [Obs("record", uid, "summary") EXCEPT !.oracle = resp.kind]
    IN
    /\ UNCHANGED delete_preview_cache
    /\ IF resp.kind = "error"
       THEN /\ last' = [o EXCEPT !.reply = "error"]
            /\ UNCHANGED <<trx, pv>>
       ELSE IF resp.kind = "nonjson"
       THEN /\ last' = [o EXCEPT !.reply = "json_error"]
            /\ UNCHANGED <<trx, pv>>
       ELSE IF resp.status # "success"
       THEN /\ last' = [o EXCEPT !.reply = resp.status]
            /\ UNCHANGED <<trx, pv>>
       ELSE IF records = << >>
       THEN /\ last' = [o EXCEPT !.reply = "no_records"]
            /\ UNCHANGED <<trx, pv>>
       ELSE /\ Len(st.rows) <= cap
            /\ trx' = st.rows
            /\ pv' = Touch(pv, trx' # trx)
            /\ last' = [o EXCEPT
                   !.reply = IF st.raised \/ AnyIncomeRaises(records)
                             THEN "error" ELSE "summary",
                   !.failed = IF st.raised THEN {st.at} ELSE {},
                   !.records = records,
                   !.lines = st.lines]

-----------------------------------------------------------------------------
(* handle_add_category *)

\* re.search(r'(addcat)\s*(.+)', text): the positions of the command that
\* something follows
AddAt(text) == {i \in 1..(Len(text) - 1) : text[i] = "addcat"}

\* group(2).strip(): the rest of the text, which is one token
NewCat(text) ==
    LET i == CHOOSE k \in AddAt(text) : \A m \in AddAt(text) : k <= m
    IN  text[i + 1]

\* readOk, appendOk = FALSE: get_all_records, append_row raising
handle_add_category(uid, text, readOk, appendOk) ==
    LET new_cat == NewCat(text)
        exists == \E i \in DOMAIN cat_rows :
                      cat_rows[i].uid = uid /\ cat_rows[i].category = new_cat
        o == Obs("add_category", uid, "added")
    IN
    /\ UNCHANGED <<trx, delete_preview_cache, pv>>
    /\ IF AddAt(text) = {}
       THEN last' = [o EXCEPT !.reply = "format_error"] /\ UNCHANGED cat_rows
       ELSE IF new_cat = ""
       THEN last' = [o EXCEPT !.reply = "empty"] /\ UNCHANGED cat_rows
       ELSE IF NameLen(new_cat) > MaxNameLen
       THEN last' = [o EXCEPT !.reply = "too_long"] /\ UNCHANGED cat_rows
       ELSE IF new_cat \in Range(DEFAULT_CATEGORIES)
       THEN last' = [o EXCEPT !.reply = "is_default"] /\ UNCHANGED cat_rows
       ELSE IF ~readOk
       THEN last' = [o EXCEPT !.reply = "error"] /\ UNCHANGED cat_rows
       ELSE IF exists
       THEN last' = [o EXCEPT !.reply = "exists"] /\ UNCHANGED cat_rows
       ELSE IF ~appendOk
       THEN last' = [o EXCEPT !.reply = "error"] /\ UNCHANGED cat_rows
       ELSE /\ cat_rows' = AppendRow(cat_rows, [uid |-> uid, category |-> new_cat])
            /\ last' = o

-----------------------------------------------------------------------------
(* handle_delete_category *)

\* re.search(r'(delcat)\s*(.+)', text): the positions of the command that
\* something follows
DelAt(text) == {i \in 1..(Len(text) - 1) : text[i] = "delcat"}

\* group(2).strip(): the rest of the text, which is one token
CatToDelete(text) ==
    LET i == CHOOSE k \in DelAt(text) : \A m \in DelAt(text) : k <= m
    IN  text[i + 1]

\* the last row with that category, of any user
CatRowOfAnyone(rows, uid, category) ==
    LET any == {i \in DOMAIN rows : rows[i].category = category}
    IN  IF any = {} THEN 0 ELSE CHOOSE i \in any : \A j \in any : j <= i

\* the data row the backwards scan stops at: the last row of uid with that
\* category, 0 when there is none
CatRowOf(rows, uid, category) ==
    LET mine == {i \in DOMAIN rows :
                    rows[i].uid = uid /\ rows[i].category = category}
    IN  IF mine = {} THEN 0 ELSE CHOOSE i \in mine : \A j \in mine : j <= i

\* readOk, deleteOk = FALSE: get_all_values, delete_rows raising
handle_delete_category(uid, text, readOk, deleteOk) ==
    LET cat_to_delete == CatToDelete(text)
        row == CatRowOf(cat_rows, uid, cat_to_delete)
        o == Obs("delete_category", uid, "deleted")
    IN
    /\ UNCHANGED <<trx, delete_preview_cache, pv>>
    /\ IF DelAt(text) = {}
       THEN last' = [o EXCEPT !.reply = "format_error"] /\ UNCHANGED cat_rows
       ELSE IF cat_to_delete \in Range(DEFAULT_CATEGORIES)
       THEN last' = [o EXCEPT !.reply = "is_default"] /\ UNCHANGED cat_rows
       ELSE IF ~readOk
       THEN last' = [o EXCEPT !.reply = "error"] /\ UNCHANGED cat_rows
       ELSE IF row = 0
       THEN last' = [o EXCEPT !.reply = "not_found"] /\ UNCHANGED cat_rows
       ELSE IF ~deleteOk
       THEN last' = [o EXCEPT !.reply = "error"] /\ UNCHANGED cat_rows
       ELSE /\ cat_rows' = DeleteRows(cat_rows, row + 1)
            /\ last' = o

-----------------------------------------------------------------------------
(* handle_set_budget.  The tokens of a text are separated by spaces; a     *)
(* token of JoinTable stands for words written with no space between them. *)

JoinTable ==
    {<<"budgetdrink635", <<"budget", "drink", "635">>>>,
     <<"drink635", <<"drink", "635">>>>}

\* the words of a token
Parts(t) ==
    IF \E p \in JoinTable : p[1] = t
    THEN (CHOOSE p \in JoinTable : p[1] = t)[2]
    ELSE <<t>>

\* the text as words and spaces ("sp")
RECURSIVE Atoms(_)
Atoms(text) ==
    IF text = << >> THEN << >>
    ELSE Parts(Head(text)) \o (IF Len(text) > 1 THEN <<"sp">> ELSE << >>)
         \o Atoms(Tail(text))

\* \s*: the first position from p on that holds no space
SkipSpaces(a, p) ==
    CHOOSE q \in p..(Len(a) + 1) :
        /\ \A k \in p..(q - 1) : a[k] = "sp"
        /\ q = Len(a) + 1 \/ a[q] # "sp"

\* [\u4e00-\u9fa5a-zA-Z0-9]+ taken greedily: the last position of the run of
\* words and numbers that starts at p (p - 1 when there is none)
RunEnd(a, p) ==
    CHOOSE e \in (p - 1)..Len(a) :
        /\ \A k \in p..e : a[k] # "sp"
        /\ e = Len(a) \/ a[e + 1] = "sp"

\* the words written one after the other
RECURSIVE Concat(_)
Concat(ws) == IF ws = << >> THEN "" ELSE Head(ws) \o Concat(Tail(ws))

NoMatch == [ok |-> FALSE, category |-> "", limit |-> 0]

\* the groups 2 and 3 of the pattern for the command word at position i.
\* Group 2 takes the whole run when spaces and a number follow it.  When
\* none does, the engine shortens group 2 from the right until a digit
\* follows it: group 3 is the last digit of the last number of the run and
\* group 2 is all that precedes that digit, which must not be empty.
BudgetMatchAt(a, i) ==
    LET p == SkipSpaces(a, i + 1)
        e == RunEnd(a, p)
        q == SkipSpaces(a, e + 1)
        nums == {j \in p..e : IsNum(a[j])}
        j == CHOOSE k \in nums : \A m \in nums : m <= k
        d == IntOf(a[j])
    IN  IF e < p THEN NoMatch
        ELSE IF q <= Len(a) /\ IsNum(a[q])
        THEN [ok |-> TRUE, category |-> Concat(SubSeq(a, p, e)),
              limit |-> IntOf(a[q])]
        ELSE IF nums = {} THEN NoMatch
        ELSE IF d >= 10
        THEN [ok |-> TRUE,
              category |-> Concat(SubSeq(a, p, j - 1)) \o ToString(d \div 10),
              limit |-> d % 10]
        ELSE IF j > p
        THEN [ok |-> TRUE, category |-> Concat(SubSeq(a, p, j - 1)), limit |-> d]
        ELSE NoMatch

\* re.search(r'(setbudget|budget)\s*([\u4e00-\u9fa5a-zA-Z0-9]+)\s*(\d+)',
\* text): the match at the leftmost command word that has one
BudgetMatch(text) ==
    LET a == Atoms(text)
        K == {i \in DOMAIN a :
                a[i] \in {"setbudget", "budget"} /\ BudgetMatchAt(a, i).ok}
    IN  IF K = {} THEN NoMatch
        ELSE BudgetMatchAt(a, CHOOSE k \in K : \A m \in K : k <= m)

\* no row is ever found
NoBudgetRow(rows, uid, category) == 0

\* the first row the cells of findall(user_id) lead to whose second value is
\* the category, 0 when there is none
BudgetRowOf(rows, uid, category) ==
    LET mine == {i \in DOMAIN rows :
                    rows[i].uid = uid /\ rows[i].category = category}
    IN  IF mine = {} THEN 0 ELSE CHOOSE i \in mine : \A j \in mine : i <= j

\* catReadOk, findOk, writeOk = FALSE: the Categories read, findall or
\* row_values, update_cell or append_row raising
handle_set_budget(uid, text, catReadOk, findOk, writeOk) ==
    LET match == BudgetMatch(text)
        category == match.category
        limit == match.limit
        valid_categories == get_user_categories(cat_rows, uid, catReadOk)
        found_row == BudgetRowOf(budget_rows, uid, category)
        o == Obs("set_budget", uid, "set")
    IN
    /\ UNCHANGED <<trx, cat_rows, delete_preview_cache, pv>>
    /\ IF ~match.ok
       THEN last' = [o EXCEPT !.reply = "format_error"] /\ UNCHANGED budget_rows
       ELSE IF category = "income"
       THEN last' = [o EXCEPT !.reply = "no_income"] /\ UNCHANGED budget_rows
       ELSE IF category \notin Range(valid_categories)
       THEN last' = [o EXCEPT !.reply = "invalid_category"]
            /\ UNCHANGED budget_rows
       ELSE IF ~findOk
       THEN last' = [o EXCEPT !.reply = "error"] /\ UNCHANGED budget_rows
       ELSE IF ~writeOk
       THEN last' = [o EXCEPT !.reply = "error"] /\ UNCHANGED budget_rows
       ELSE IF found_row # 0
       THEN /\ budget_rows' = [budget_rows EXCEPT ![found_row].limit = limit]
            /\ last' = [o EXCEPT !.reply = "updated"]
       ELSE /\ budget_rows' = AppendRow(budget_rows,
                   [uid |-> uid, category |-> category, limit |-> limit])
            /\ last' = o

-----------------------------------------------------------------------------
(* check_budget_warning *)

\* record_time_str.startswith(event_time.strftime('%Y-%m'))
InMonth(date, month) ==
    Len(date) = 3 /\ date[1] = month[1] /\ date[2] = month[2]

\* the sum of abs(amount) over the rows from the i-th on that count
RECURSIVE SpentFrom(_, _, _, _, _)
SpentFrom(rows, uid, category, month, i) ==
    IF i > Len(rows) THEN 0
    ELSE LET r == rows[i]
             counts == /\ r.uid = uid
                       /\ InMonth(r.date, month)
                       /\ r.category = category
                       /\ r.amount < 0
         IN  (IF counts THEN -r.amount ELSE 0)
             + SpentFrom(rows, uid, category, month, i + 1)

\* the rows of every month count
SpentAnyMonth(rows, uid, category, month) ==
    SpentFrom([i \in DOMAIN rows |->
                  [rows[i] EXCEPT !.date = <<month[1], month[2], 1>>]],
              uid, category, month, 1)

Spent(rows, uid, category, month) == SpentFrom(rows, uid, category, month, 1)

\* the limit of the first budget row of the pair, 0 when there is none
LimitOf(budgets, uid, category) ==
    LET r == BudgetRowOf(budgets, uid, category)
    IN  IF r = 0 THEN 0 ELSE budgets[r].limit

\* f"{n / d:.0f}": the quotient rounded to the nearest integer, ties to even
RoundDiv(n, d) ==
    LET q == n \div d
        r == n % d
    IN  IF 2 * r < d THEN q
        ELSE IF 2 * r > d THEN q + 1
        ELSE IF q % 2 = 0 THEN q ELSE q + 1

NoWarning == [kind |-> "none", amount |-> 0, percent |-> 0]

\* the warning text as a record: "over" carries spent - limit, "near" carries
\* limit - spent and the percentage used; readOk = FALSE is a sheet read raising
check_budget_warning(rows, budgets, uid, category, month, readOk) ==
    LET user_budget_limit == LimitOf(budgets, uid, category)
        spent == Spent(rows, uid, category, month)
    IN  IF category = "income" THEN NoWarning
        ELSE IF ~readOk THEN [NoWarning EXCEPT !.kind = "error"]
        ELSE IF user_budget_limit <= 0 THEN NoWarning
        ELSE IF spent * 100 >= 100 * user_budget_limit
        THEN [kind |-> "over", amount |-> spent - user_budget_limit,
              percent |-> 0]
        ELSE IF spent * 100 >= 90 * user_budget_limit
        THEN [kind |-> "near", amount |-> user_budget_limit - spent,
              percent |-> RoundDiv(spent * 100, user_budget_limit)]
        ELSE NoWarning

-----------------------------------------------------------------------------
(* handle_total_analysis, handle_monthly_report *)

\* the amounts of every row from the i-th on, whatever S holds
RECURSIVE SumOfAll(_, _, _)
SumOfAll(rows, S, i) ==
    IF i > Len(rows) THEN 0 ELSE rows[i].amount + SumOfAll(rows, S, i + 1)

\* the sum of the amounts of the rows from the i-th on with index in S
RECURSIVE SumFrom(_, _, _)
SumFrom(rows, S, i) ==
    IF i > Len(rows) THEN 0
    ELSE (IF i \in S THEN rows[i].amount ELSE 0) + SumFrom(rows, S, i + 1)

\* readOk = FALSE: get_all_values raising
handle_total_analysis(uid, readOk) ==
    LET mine == {i \in DOMAIN trx : trx[i].uid = uid}
        spent == {i \in mine : trx[i].amount <= 0}
        total_income == SumFrom(trx, mine \ spent, 1)
        total_expense == 0 - SumFrom(trx, spent, 1)
        category_spending ==
            [c \in {trx[i].category : i \in spent} |->
                0 - SumFrom(trx, {i \in spent : trx[i].category = c}, 1)]
        o == Obs("total", uid, "report")
    IN
    /\ UNCHANGED <<trx, delete_preview_cache, pv>>
    /\ IF ~readOk THEN last' = [o EXCEPT !.reply = "error"]
       ELSE IF trx = << >> THEN last' = [o EXCEPT !.reply = "empty"]
       ELSE IF total_income = 0 /\ total_expense = 0
       THEN last' = [o EXCEPT !.reply = "empty"]
       ELSE last' = [o EXCEPT !.report =
                <<[income |-> total_income, expense |-> total_expense,
                   net |-> total_income - total_expense,
                   by_category |-> category_spending]>>]

\* header.get('date', -1) is called on the list all_values[0]: it raises
\* AttributeError, which only the outer except clause catches, so a ledger
\* with a data row gets the error reply and the loop over the rows is
\* never entered
handle_monthly_report(uid, readOk) ==
    LET o == Obs("monthly", uid, "error")
    IN
    /\ UNCHANGED <<trx, delete_preview_cache, pv>>
    /\ IF ~readOk THEN last' = o
       ELSE IF trx = << >> THEN last' = [o EXCEPT !.reply = "empty"]
       ELSE last' = o

-----------------------------------------------------------------------------
(* handle_conversational_query_advice, get_spending_data_for_month *)

\* the owner's expenses dated in the month: their total and the totals per
\* category; the timestamp is the "date" cell, or the "time" cell where
\* there is no "date" column or its cell is empty
get_spending_data_for_month(rows, h, uid, month) ==
    LET idx_time_new == IndexOf(h, "date")
        idx_time_old == IndexOf(h, "time")
        record_time_str(r) ==
            IF idx_time_new # 0 /\ Cell(r, idx_time_new) # << >>
            THEN Cell(r, idx_time_new)
            ELSE IF idx_time_old # 0 /\ Cell(r, idx_time_old) # << >>
            THEN Cell(r, idx_time_old)
            ELSE << >>
        S == {i \in DOMAIN rows :
                /\ rows[i].uid = uid
                /\ InMonth(record_time_str(rows[i]), month)
                /\ rows[i].amount < 0}
    IN  [total |-> 0 - SumFrom(rows, S, 1),
         categories |->
            [c \in {rows[i].category : i \in S} |->
                0 - SumFrom(rows, {i \in S : rows[i].category = c}, 1)]]

\* this_month_date.replace(day=1) - timedelta(days=1), as <<year, month>>
PrevMonth(month) ==
    IF month[2] = 1 THEN <<month[1] - 1, 12>> ELSE <<month[1], month[2] - 1>>

\* month is that of the event time.
\* ok = FALSE: a sheet read or the advice oracle raising.  The reply is the
\* oracle's text about the figures of this month and of the month before;
\* last.report holds the two
handle_conversational_query_advice(uid, month, ok) ==
    /\ UNCHANGED <<trx, delete_preview_cache, pv>>
    /\ IF ~ok THEN last' = Obs("advice", uid, "error")
       ELSE IF trx = << >> THEN last' = Obs("advice", uid, "empty")
       ELSE last' = [Obs("advice", uid, "advice") EXCEPT !.report =
                <<get_spending_data_for_month(trx, header, uid, month),
                  get_spending_data_for_month(trx, header, uid, PrevMonth(month))>>]

-----------------------------------------------------------------------------
(* Handlers that only answer: handle_chat_nlp, handle_update_record_nlp *)

\* a handler that answers and drops the pending preview of the sender
ReplyAndForget(op, uid) ==
    /\ last' = Obs(op, uid, "text")
    /\ delete_preview_cache' = [delete_preview_cache EXCEPT ![uid] = NoPreview]
    /\ UNCHANGED <<trx, pv>>

\* the handlers without a write call: handle_view_budget,
\* handle_list_categories, handle_search_records_nlp, handle_weekly_report,
\* handle_update_record_nlp, handle_exchange_rate_query and the help text
ReplyOnly(op, uid) ==
    /\ last' = Obs(op, uid, "text")
    /\ UNCHANGED <<trx, delete_preview_cache, pv>>

\* handle_chat_nlp: the oracle's text, or the apology when the call raises
handle_chat_nlp(uid, resp) ==
    /\ last' = [Obs("chat", uid, IF resp.kind = "error" THEN "apology" ELSE "text")
                    EXCEPT !.oracle = resp.kind]
    /\ UNCHANGED <<trx, delete_preview_cache, pv>>

-----------------------------------------------------------------------------
(* handle_message: the router *)

Intents ==
    {"HELP", "QUERY_REPORT", "MANAGE_BUDGET", "MANAGE_CATEGORIES", "DELETE",
     "QUERY_DATA", "QUERY_ADVICE", "UPDATE", "NEW_FEATURE_EXCHANGE_RATE",
     "RECORD", "CHAT", "UNKNOWN"}

\* "confirm delete" in text or ("confirm" in text and "delete" in text)
IsConfirmText(text) ==
    \/ Contains(text, <<"confirm", "delete">>)
    \/ Contains(text, <<"confirm">>) /\ Contains(text, <<"delete">>)

\* "setbudget"[:2] in text or re.search(r'budget.*?\d+', text)
IsSetBudgetText(text) ==
    LET a == Atoms(text) IN
    \/ "setbudget" \in Range(a)
    \/ \E i, j \in DOMAIN a : i < j /\ a[i] = "budget" /\ IsNum(a[j])

\* what get_user_intent returns: the label the oracle answered, "UNKNOWN"
\* when the call raised ("error") or its text was no JSON ("nonjson")
get_user_intent(outcome) ==
    IF outcome \in {"error", "nonjson"} THEN "UNKNOWN" ELSE outcome

\* re.search(r'^(help)$', text, re.I)
IsHelpText(text) == text = <<"help">>

\* the handler a message goes to, given what its classification gave
Route(text, outcome) ==
    LET intent == get_user_intent(outcome) IN
    IF intent = "HELP" THEN "help"
    ELSE IF intent = "QUERY_REPORT" THEN "report"
    ELSE IF intent = "MANAGE_BUDGET" THEN
        IF IsSetBudgetText(text) THEN "set_budget" ELSE "view_budget"
    ELSE IF intent = "MANAGE_CATEGORIES" THEN
        IF "addcat" \in Range(text) THEN "add_category"
        ELSE IF Range(text) \cap {"delete", "delcat"} # {} THEN "delete_category"
        ELSE "list_categories"
    ELSE IF intent = "DELETE" THEN
        IF IsConfirmText(text) THEN "confirm"
        ELSE IF text = <<"delete">> THEN "delete_last"
        ELSE "preview"
    ELSE IF intent = "QUERY_DATA" THEN "search"
    ELSE IF intent = "QUERY_ADVICE" THEN "advice"
    ELSE IF intent = "UPDATE" THEN "update"
    ELSE IF intent = "NEW_FEATURE_EXCHANGE_RATE" THEN "exchange_rate"
    ELSE IF intent = "RECORD" THEN "record"
    ELSE IF intent = "CHAT" THEN "chat"
    ELSE "record"

\* the routes whose handlers only read the sheets
ReadOnlyRoutes ==
    {"help", "report", "view_budget", "list_categories", "search", "advice",
     "update", "exchange_rate", "chat"}

\* one reply goes out without the final reply
RoutedSilently(m) ==
    /\ ~IsHelpText(m[1])
    /\ msg' = m[1]
    /\ user_intent' = m[2]
    /\ replied' = << >>
    /\ UNCHANGED <<header, confirms>>

\* message m = <<text, outcome of the classification>> passes the help
\* shortcut and the sheet set-up, is classified and routed, and the text its
\* handler returns is sent as the final reply
Routed(m) ==
    /\ ~IsHelpText(m[1])
    /\ msg' = m[1]
    /\ user_intent' = m[2]
    /\ replied' = <<"final">>
    /\ UNCHANGED <<header, confirms>>

\* each message below is handled start to finish at send time `now`; msgs is
\* a set of <<text, intent>>: a text and the label get_user_intent returns for
\* it; users are the senders; faults says whether Ledger Store calls may raise,
\* failing which delete_rows calls of a confirm may (by position in the loop)

MsgConfirm(users, msgs, failing) ==
    \E uid \in users, m \in msgs :
        /\ Route(m[1], m[2]) = "confirm"
        /\ \E failed \in SUBSET failing : handle_confirm_delete(uid, m[1], failed)
        /\ Routed(m)
        /\ UNCHANGED <<cat_rows, budget_rows, now, ticks>>

MsgDeleteLast(users, msgs, faults) ==
    \E uid \in users, m \in msgs :
        /\ Route(m[1], m[2]) = "delete_last"
        /\ \E readOk, deleteOk \in (IF faults THEN BOOLEAN ELSE {TRUE}) :
               handle_delete_last_record(uid, readOk, deleteOk)
        /\ Routed(m)
        /\ UNCHANGED <<cat_rows, budget_rows, now, ticks>>

MsgPreview(users, msgs, answers, faults) ==
    \E uid \in users, m \in msgs :
        /\ Route(m[1], m[2]) = "preview"
        /\ \E nlp \in answers, readOk \in (IF faults THEN BOOLEAN ELSE {TRUE}) :
               handle_advanced_delete_nlp(uid, m[1], nlp, readOk)
        /\ Routed(m)
        /\ UNCHANGED <<cat_rows, budget_rows, now, ticks>>

MsgRecord(users, msgs, answers, faults, cap) ==
    \E uid \in users, m \in msgs :
        /\ Route(m[1], m[2]) = "record"
        /\ \E resp \in answers,
              catReadOk \in (IF faults THEN BOOLEAN ELSE {TRUE}),
              failAt \in (IF faults THEN 0..MaxDrafts ELSE {0}) :
               handle_nlp_record(uid, m[1], resp, catReadOk, failAt, cap)
        /\ Routed(m)
        /\ UNCHANGED <<cat_rows, budget_rows, now, ticks>>

MsgAddCategory(users, msgs, faults) ==
    \E uid \in users, m \in msgs :
        /\ Route(m[1], m[2]) = "add_category"
        /\ \E readOk, appendOk \in (IF faults THEN BOOLEAN ELSE {TRUE}) :
               handle_add_category(uid, m[1], readOk, appendOk)
        /\ Routed(m)
        /\ UNCHANGED <<budget_rows, now, ticks>>

MsgDeleteCategory(users, msgs, faults) ==
    \E uid \in users, m \in msgs :
        /\ Route(m[1], m[2]) = "delete_category"
        /\ \E readOk, deleteOk \in (IF faults THEN BOOLEAN ELSE {TRUE}) :
               handle_delete_category(uid, m[1], readOk, deleteOk)
        /\ Routed(m)
        /\ UNCHANGED <<budget_rows, now, ticks>>

MsgSetBudget(users, msgs, faults) ==
    \E uid \in users, m \in msgs :
        /\ Route(m[1], m[2]) = "set_budget"
        /\ \E catReadOk, findOk, writeOk \in (IF faults THEN BOOLEAN ELSE {TRUE}) :
               handle_set_budget(uid, m[1], catReadOk, findOk, writeOk)
        /\ Routed(m)
        /\ UNCHANGED <<now, ticks>>

MsgReplyOnly(users, msgs) ==
    \E uid \in users, m \in msgs :
        /\ Route(m[1], m[2]) \in ReadOnlyRoutes
        /\ ReplyOnly(Route(m[1], m[2]), uid)
        /\ Routed(m)
        /\ UNCHANGED <<cat_rows, budget_rows, now, ticks>>

MsgChat(users, msgs, answers) ==
    \E uid \in users, m \in msgs :
        /\ Route(m[1], m[2]) = "chat"
        /\ \E resp \in answers : handle_chat_nlp(uid, resp)
        /\ Routed(m)
        /\ UNCHANGED <<cat_rows, budget_rows, now, ticks>>

\* a handler that only reads raises: the router's except clause turns the
\* exception into the apology, which is sent as the final reply
MsgHandlerRaises(users, msgs) ==
    \E uid \in users, m \in msgs :
        /\ Route(m[1], m[2]) \in ReadOnlyRoutes
        /\ last' = Obs(Route(m[1], m[2]), uid, "apology")
        /\ Routed(m)
        /\ UNCHANGED <<trx, cat_rows, budget_rows, delete_preview_cache, pv,
                       now, ticks>>

\* the message ends before the classification with one reply: the help text
\* ("help"), the report of a failed get_sheets_workbook ("no_workbook") or
\* of ensure_worksheets returning no sheet ("no_worksheet")
EarlyReply(uid, text, path) ==
    /\ last' = Obs(path, uid, IF path = "help" THEN "text" ELSE "error")
    /\ msg' = text
    /\ user_intent' = ""
    /\ replied' = <<path>>
    /\ UNCHANGED <<header, confirms, trx, cat_rows, budget_rows, delete_preview_cache, pv,
                   now, ticks>>

MsgHelpShortcut(users, msgs) ==
    \E uid \in users, m \in msgs :
        /\ IsHelpText(m[1])
        /\ EarlyReply(uid, m[1], "help")

MsgNoSheets(users, msgs) ==
    \E uid \in users, m \in msgs, path \in {"no_workbook", "no_worksheet"} :
        /\ ~IsHelpText(m[1])
        /\ EarlyReply(uid, m[1], path)

\* the QUERY_REPORT branch for the texts of the total and the month report
MsgReport(users, msgs, faults) ==
    \E uid \in users, m \in msgs :
        /\ Route(m[1], m[2]) = "report"
        /\ \E readOk \in (IF faults THEN BOOLEAN ELSE {TRUE}) :
               IF "chazhang" \in Range(m[1]) THEN handle_total_analysis(uid, readOk)
               ELSE "yuejie" \in Range(m[1]) /\ handle_monthly_report(uid, readOk)
        /\ Routed(m)
        /\ UNCHANGED <<cat_rows, budget_rows, now, ticks>>

\* the QUERY_ADVICE branch
MsgAdvice(users, msgs, month, faults) ==
    \E uid \in users, m \in msgs :
        /\ Route(m[1], m[2]) = "advice"
        /\ \E ok \in (IF faults THEN BOOLEAN ELSE {TRUE}) :
               handle_conversational_query_advice(uid, month, ok)
        /\ Routed(m)
        /\ UNCHANGED <<cat_rows, budget_rows, now, ticks>>

\* A confirm handled by request thread t while other requests run.  The
\* thread runs from the start of handle_confirm_delete to its first
\* delete_rows call in one step: the tests, and the replies that end the
\* confirm without a call, are those of handle_confirm_delete.
ConfirmBegin(t, users, msgs) ==
    \E uid \in users, m \in msgs :
        LET cache_data == delete_preview_cache[uid]
            text == m[1]
            ends == \/ cache_data = NoPreview
                    \/ Expired(now, cache_data.timestamp)
                    \/ HasOrdinal(text) /\ Ordinal(text) \notin DOMAIN cache_data.mapping
                    \/ RowsToDelete(cache_data, text) = << >>
        IN
        /\ Route(m[1], m[2]) = "confirm"
        /\ confirms[t].phase = "idle"
        /\ msg' = text
        /\ user_intent' = m[2]
        /\ IF ends
           THEN /\ handle_confirm_delete(uid, text, {})
                /\ confirms' = [confirms EXCEPT ![t] =
                        [NoConfirm EXCEPT !.phase = "finished", !.uid = uid]]
                /\ replied' = <<"final">>
           ELSE /\ confirms' = [confirms EXCEPT ![t] =
                        [NoConfirm EXCEPT
                            !.phase = "deleting", !.uid = uid,
                            !.todo = DeleteOrder(RowsToDelete(cache_data, text)),
                            !.refs = cache_data.all_rows,
                            !.keyword = pv[uid].keyword,
                            !.start_date = pv[uid].start_date,
                            !.end_date = pv[uid].end_date]]
                /\ last' = Obs("confirm_begin", uid, "")
                /\ replied' = << >>
                /\ UNCHANGED <<trx, delete_preview_cache, pv>>
        /\ UNCHANGED <<header, cat_rows, budget_rows, now, ticks>>

\* one sheet.delete_rows(row_num) of the loop of thread t
ConfirmCall(t) ==
    LET c == confirms[t]
        row_num == Head(c.todo)
    IN
    /\ c.phase = "deleting"
    /\ c.todo # << >>
    /\ trx' = DeleteRows(trx, row_num)
    /\ confirms' = [confirms EXCEPT ![t] =
            [c EXCEPT !.todo = Tail(c.todo),
                      !.done = IF trx' # trx THEN Append(c.done, trx[row_num - 1])
                               ELSE c.done]]
    /\ pv' = Touch(pv, trx' # trx)
    /\ last' = [Obs("delete_rows", c.uid, "") EXCEPT !.calls = <<row_num>>]
    /\ UNCHANGED <<header, cat_rows, budget_rows, delete_preview_cache, now,
                   ticks, msg, user_intent, replied>>

\* the loop of thread t is over: del delete_preview_cache[user_id] and the
\* reply; when another confirm has removed the entry already the del raises
\* KeyError and the except clause answers with the error text
ConfirmEnd(t) ==
    LET c == confirms[t] IN
    /\ c.phase = "deleting"
    /\ c.todo = << >>
    /\ confirms' = [confirms EXCEPT ![t].phase = "finished"]
    /\ IF delete_preview_cache[c.uid] # NoPreview
       THEN /\ delete_preview_cache' =
                    [delete_preview_cache EXCEPT ![c.uid] = NoPreview]
            /\ pv' = [pv EXCEPT ![c.uid] = NoPv]
            /\ last' = [Obs("confirm", c.uid, "done") EXCEPT !.total = Len(c.refs)]
       ELSE /\ last' = [Obs("confirm", c.uid, "error") EXCEPT !.total = Len(c.refs)]
            /\ UNCHANGED <<delete_preview_cache, pv>>
    /\ replied' = <<"final">>
    /\ UNCHANGED <<header, trx, cat_rows, budget_rows, now, ticks, msg,
                   user_intent>>

\* time passes between two messages
Tick(steps) ==
    \E d \in steps :
        /\ ticks < MaxTicks
        /\ now' = now + d
        /\ ticks' = ticks + 1
        /\ msg' = << >>
        /\ user_intent' = ""
        /\ replied' = << >>
        /\ last' = Obs("tick", "", "")
        /\ UNCHANGED <<header, confirms, trx, cat_rows, budget_rows, delete_preview_cache, pv>>

-----------------------------------------------------------------------------
(* Texts and oracle answers the specifications draw from *)

D1 == <<2025, 11, 12>>
D2 == <<2025, 11, 13>>

NoCriteria == [status |-> "success", keyword |-> << >>, start_date |-> << >>, end_date |-> << >>]

\* answers of call_search_nlp
SearchAnswers ==
    {[NoCriteria EXCEPT !.status = "failure"],
     NoCriteria,
     [NoCriteria EXCEPT !.start_date = D1, !.end_date = D1],
     [NoCriteria EXCEPT !.keyword = <<"jipai">>, !.start_date = <<0>>]}

Draft(datetime, category, amount, notes) ==
    [datetime |-> datetime, category |-> category, amount |-> amount, notes |-> notes]

Answer(kind, status, data) == [kind |-> kind, status |-> status, data |-> data]

Jipai == Draft(D1, "food", <<-80>>, <<"jipai">>)

\* answers of the extraction oracle
SmallAnswers ==
    {Answer("error", "", << >>), Answer("json", "chat", << >>),
     Answer("json", "success", <<Jipai>>)}

ConfirmTexts ==
    {<<"confirm", "delete">>}
    \cup {<<"confirm", "delete", k>> : k \in {"0", "1", "2", "5", "6"}}

\* the messages of the delete workflow
DeleteMsgs ==
    ({<<"confirm", "delete">>, <<"confirm", "delete", "1">>,
      <<"confirm", "delete", "4">>} \X {"DELETE", "RECORD", "CHAT"})
    \cup ({<<"delete">>, <<"delete", "jipai">>, <<"delete", "coffee">>,
            <<"shandiao", "8">>} \X {"DELETE"})
    \cup {<<(<<"jipai", "80">>), "RECORD">>, <<(<<"jipai", "80">>), "UNKNOWN">>,
          <<(<<"jipai", "80">>), "UPDATE">>}

Init ==
    /\ header = NewHeader
    /\ confirms = [t \in Threads |-> NoConfirm]
    /\ trx = << >>
    /\ cat_rows = << >>
    /\ budget_rows = << >>
    /\ delete_preview_cache = [u \in Users |-> NoPreview]
    /\ now = 0
    /\ ticks = 0
    /\ pv = [u \in Users |-> NoPv]
    /\ msg = << >>
    /\ user_intent = ""
    /\ replied = << >>
    /\ last = Obs("init", "", "")

-----------------------------------------------------------------------------
(* Spec: the delete workflow of two users on a small sheet; every Ledger   *)
(* Store call succeeds, the oracles answer anything                        *)

Next ==
    \/ MsgConfirm(Users, DeleteMsgs, {})
    \/ MsgDeleteLast(Users, DeleteMsgs, FALSE)
    \/ MsgPreview(Users, DeleteMsgs, SearchAnswers, FALSE)
    \/ MsgRecord(Users, DeleteMsgs, SmallAnswers, FALSE, MaxRows)
    \/ MsgReplyOnly(Users, DeleteMsgs)

Spec == Init /\ [][Next]_vars

-----------------------------------------------------------------------------
(* SpecBulk: user u1 previews and confirms on a sheet that can hold more   *)
(* matches than a preview displays; u2 records and deletes in between;     *)
(* every Ledger Store call succeeds                                        *)

BulkRows == DisplayMax + 1

BulkMsgs ==
    (ConfirmTexts \X {"DELETE"})
    \cup ({<<"delete">>, <<"delete", "jipai">>} \X {"DELETE"})
    \cup {<<(<<"jipai", "80">>), "RECORD">>}

BulkAnswers == {Answer("json", "success", <<Jipai>>)}

NextBulk ==
    \/ MsgConfirm({"u1"}, BulkMsgs, {})
    \/ MsgDeleteLast(Users, BulkMsgs, FALSE)
    \/ MsgPreview({"u1"}, BulkMsgs, {NoCriteria}, FALSE)
    \/ MsgRecord(Users, BulkMsgs, BulkAnswers, FALSE, BulkRows)

SpecBulk == Init /\ [][NextBulk]_vars

-----------------------------------------------------------------------------
(* SpecBulkFault: SpecBulk where the first two delete_rows calls of a      *)
(* confirm may raise                                                       *)

NextBulkFault ==
    \/ MsgConfirm({"u1"}, BulkMsgs, {1, 2})
    \/ MsgDeleteLast(Users, BulkMsgs, FALSE)
    \/ MsgPreview({"u1"}, BulkMsgs, {NoCriteria}, FALSE)
    \/ MsgRecord(Users, BulkMsgs, BulkAnswers, FALSE, BulkRows)

SpecBulkFault == Init /\ [][NextBulkFault]_vars

-----------------------------------------------------------------------------
(* SpecTTL: the clock advances between the messages of user u1             *)

TickSteps == {1, 299, 301}

TTLMsgs ==
    ({<<"confirm", "delete">>, <<"confirm", "delete", "1">>,
      <<"confirm", "delete", "5">>, <<"delete", "jipai">>} \X {"DELETE"})
    \cup {<<(<<"jipai", "80">>), "RECORD">>}

NextTTL ==
    \/ MsgConfirm({"u1"}, TTLMsgs, {})
    \/ MsgPreview({"u1"}, TTLMsgs, {NoCriteria}, FALSE)
    \/ MsgRecord(Users, TTLMsgs, BulkAnswers, FALSE, MaxRows)
    \/ Tick(TickSteps)

SpecTTL == Init /\ [][NextTTL]_vars

-----------------------------------------------------------------------------
(* SpecRecord: the record pipeline of two users, u1 with and without a     *)
(* custom category; the extraction oracle answers any sequence of at most  *)
(* MaxDrafts drafts; every Ledger Store call succeeds                      *)

Pet == Draft(D1, "pet", <<-60>>, <<"catfood">>)
Zero == Draft(D1, "food", <<0>>, <<"tea">>)
Bad == Draft(D1, "food", << >>, <<"gift">>)
Salary == Draft(D2, "income", <<180>>, <<"salary">>)

RecordDrafts == {Jipai, Pet, Zero, Bad, Salary}

\* the sequences over set S of length at most n
SeqsUpTo(S, n) == UNION {[1..k -> S] : k \in 0..n}

RecordAnswers ==
    {Answer("error", "", << >>), Answer("nonjson", "", << >>),
     Answer("json", "chat", << >>)}
    \cup {Answer("json", "success", q) : q \in SeqsUpTo(RecordDrafts, MaxDrafts)}

RecordMsgs ==
    {<<(<<"dinner", "180", "+", "60">>), "RECORD">>}
    \cup ({<<"addcat", "pet">>, <<"addcat", "food">>, <<"addcat", "longname">>,
            <<"addcat">>} \X {"MANAGE_CATEGORIES"})
    \cup {<<(<<"delete">>), "DELETE">>}

NextRecord ==
    \/ MsgAddCategory({"u1"}, RecordMsgs, FALSE)
    \/ MsgRecord(Users, RecordMsgs, RecordAnswers, FALSE, MaxRows)
    \/ MsgDeleteLast(Users, RecordMsgs, FALSE)

SpecRecord == Init /\ [][NextRecord]_vars

-----------------------------------------------------------------------------
(* Properties of the delete workflow *)

Min(a, b) == IF a < b THEN a ELSE b

\* the gspread rows the pending preview of u would list on the ledger as it is
Listed(u) ==
    MatchedRows(trx, u, pv[u].keyword, pv[u].start_date, pv[u].end_date)

\* s without the elements at the gspread rows of M
WithoutRows(s, M) == SelectIdx(s, {i \in DOMAIN s : i + 1 \notin Range(M)}, 1)

\* C1: a confirm sent more than 300 seconds after the owner's pending preview
\* was created deletes no row, discards the preview and answers "expired", and
\* a confirm of an owner who has no pending preview answers "nothing to
\* confirm" and deletes nothing; a confirm sent at most 299 seconds after the
\* preview is applied: with no ordinal or with ordinal 1 it deletes rows and
\* discards the preview
C1_DeleteTTL ==
    [][\A u \in Users :
          (last'.op = "confirm" /\ last'.uid = u) =>
              IF delete_preview_cache[u] = NoPreview
              THEN last'.reply = "no_preview" /\ trx' = trx
              ELSE LET age == now - delete_preview_cache[u].timestamp IN
                   /\ age > 300 =>
                         /\ last'.reply = "expired"
                         /\ trx' = trx
                         /\ delete_preview_cache'[u] = NoPreview
                   /\ (/\ age <= 299
                       /\ msg' \in {<<"confirm", "delete">>,
                                    <<"confirm", "delete", "1">>}) =>
                         /\ last'.reply = "done"
                         /\ Len(trx') < Len(trx)
                         /\ delete_preview_cache'[u] = NoPreview
      ]_vars

\* a confirm found its preview 301 seconds old and answered "expired"
C1_Witness ==
    /\ last.op = "confirm"
    /\ last.reply = "expired"
    /\ last.age = 301
    /\ trx # << >>
    /\ delete_preview_cache[last.uid] = NoPreview

\* C2: a confirm with an ordinal k in 1..min(5, total matches), on a ledger
\* not modified since the preview, removes exactly one row, the k-th row the
\* preview listed, keeps every other row in its order and discards the preview
C2_OrdinalConfirm ==
    [][\A u \in Users, t \in NumTokens :
          (/\ last'.op = "confirm" /\ last'.uid = u
           /\ msg' = <<"confirm", "delete", t>>
           /\ pv[u].pending
           /\ pv[u].fresh
           /\ IntOf(t) \in 1..Min(DisplayMax, Len(Listed(u)))) =>
              /\ last'.reply = "done"
              /\ Len(trx') = Len(trx) - 1
              /\ trx' = RemoveAt(trx, Listed(u)[IntOf(t)] - 1)
              /\ delete_preview_cache'[u] = NoPreview
      ]_vars

\* "confirm delete 2" was applied to a fresh preview of exactly 3 matches
C2_Witness ==
    /\ last.op = "confirm"
    /\ last.reply = "done"
    /\ msg = <<"confirm", "delete", "2">>
    /\ last.total = 3
    /\ last.fresh
    /\ last.calls = <<3>>

\* C3: a confirm without an ordinal, on a ledger not modified since the
\* preview and with every delete call succeeding, leaves the ledger of the
\* preview minus exactly all rows that matched it (those beyond the 5
\* displayed included), the other rows in their order, and discards the preview
C3_ConfirmAll ==
    [][\A u \in Users :
          (/\ last'.op = "confirm" /\ last'.uid = u
           /\ msg' = <<"confirm", "delete">>
           /\ pv[u].pending
           /\ pv[u].fresh
           /\ last'.failed = {}) =>
              /\ last'.reply = "done"
              /\ trx' = WithoutRows(trx, Listed(u))
              /\ Len(trx') = Len(trx) - Len(Listed(u))
              /\ delete_preview_cache'[u] = NoPreview
      ]_vars

\* a confirm without ordinal deleted the 6 matches of a fresh preview, one
\* more than the preview displayed, and every call succeeded
C3_Witness ==
    /\ last.op = "confirm"
    /\ last.reply = "done"
    /\ msg = <<"confirm", "delete">>
    /\ last.total = DisplayMax + 1
    /\ last.fresh
    /\ last.failed = {}
    /\ header = NewHeader
    /\ confirms = [t \in Threads |-> NoConfirm]
    /\ trx = << >>

\* C4: the delete calls of one confirm are in strictly descending row order:
\* no call has a row index greater than or equal to that of an earlier call
C4_DescendingCalls ==
    last.op = "confirm" =>
        \A i, j \in DOMAIN last.calls :
            i < j => last.calls[i] > last.calls[j]

\* a confirm issued six delete calls
C4_Witness ==
    /\ last.op = "confirm"
    /\ Len(last.calls) = DisplayMax + 1
    /\ last.calls[1] = DisplayMax + 2

\* C5: a confirm of an owner without a pending preview answers "nothing to
\* confirm" and changes neither the ledger nor the previews; a confirm whose
\* ordinal is outside 1..min(5, total) answers "ordinal out of range", deletes
\* nothing and leaves the preview as it is, and a confirm with an ordinal
\* inside that range is then still applied
C5_ConfirmErrors ==
    [][\A u \in Users :
          (last'.op = "confirm" /\ last'.uid = u) =>
              IF delete_preview_cache[u] = NoPreview
              THEN /\ last'.reply = "no_preview"
                   /\ trx' = trx
                   /\ delete_preview_cache' = delete_preview_cache
              ELSE \A t \in NumTokens :
                      (/\ msg' = <<"confirm", "delete", t>>
                       /\ ~(now - delete_preview_cache[u].timestamp > 300)) =>
                          IF IntOf(t) \in 1..Min(5, Len(delete_preview_cache[u].all_rows))
                          THEN /\ last'.reply = "done"
                               /\ delete_preview_cache'[u] = NoPreview
                          ELSE /\ last'.reply = "bad_ordinal"
                               /\ trx' = trx
                               /\ delete_preview_cache' = delete_preview_cache
      ]_vars

\* "confirm delete 4" was refused on a preview of fewer matches, which is
\* still pending
C5_Witness ==
    /\ last.op = "confirm"
    /\ last.reply = "bad_ordinal"
    /\ msg = <<"confirm", "delete", "4">>
    /\ last.total \in 1..3
    /\ delete_preview_cache[last.uid] # NoPreview
    /\ trx # << >>

\* C6: an owner's pending preview is the result of the owner's most recent
\* preview request: right after a preview request that found matches, the
\* pending preview is that request's, created now, over the rows that match
\* it; right after a preview request that found none, the owner has no pending
\* preview (so that a following confirm deletes nothing)
C6_MostRecentPreview ==
    \A u \in Users :
        (last.op = "preview" /\ last.uid = u) =>
            /\ last.reply = "preview" =>
                  /\ delete_preview_cache[u] # NoPreview
                  /\ delete_preview_cache[u].timestamp = now
                  /\ delete_preview_cache[u].all_rows = Listed(u)
            /\ last.reply = "not_found" => delete_preview_cache[u] = NoPreview

\* a preview request of an owner found nothing, and the owner's earlier
\* preview is still pending
C6_Witness ==
    /\ last.op = "preview"
    /\ last.reply = "not_found"
    /\ delete_preview_cache[last.uid] # NoPreview
    /\ delete_preview_cache[last.uid].all_rows = <<2>>

\* C7: a bare "delete" removes exactly one row, the highest-index row of the
\* sender, leaves every other row and the pending previews unchanged, and
\* removes nothing when the sender has no row
C7_BareDelete ==
    [][\A u \in Users :
          (last'.op = "delete_last" /\ last'.uid = u /\ msg' = <<"delete">>) =>
              LET mine == {i \in DOMAIN trx : trx[i].uid = u} IN
              /\ delete_preview_cache' = delete_preview_cache
              /\ IF mine = {} THEN trx' = trx
                 ELSE \E i \in mine :
                         /\ \A j \in mine : j <= i
                         /\ Len(trx') = Len(trx) - 1
                         /\ trx' = RemoveAt(trx, i)
      ]_vars

\* a bare "delete" of u2 removed a row that rows of u1 precede and follow,
\* while a preview of u1 is pending
C7_Witness ==
    /\ last.op = "delete_last"
    /\ last.uid = "u2"
    /\ last.reply = "deleted"
    /\ msg = <<"delete">>
    /\ last.calls = <<3>>
    /\ Len(trx) = 3
    /\ delete_preview_cache["u1"] # NoPreview

\* C8: a message whose text is "confirm delete", with or without an ordinal,
\* is handled by the confirm step whatever intent label the oracle returns,
\* and never appends a ledger row
C8_ConfirmTextConfirms ==
    [][msg' \in ConfirmTexts =>
          /\ last'.op = "confirm"
          /\ Len(trx') <= Len(trx)
      ]_vars

\* the text "confirm delete" went to the record step, which appended a row
C8_Witness ==
    /\ msg = <<"confirm", "delete">>
    /\ last.op = "record"
    /\ last.reply = "summary"
    /\ Len(trx) = 1

-----------------------------------------------------------------------------
(* Properties of the record pipeline *)

\* C9: a draft with a parsable non-zero amount whose category is not among
\* the owner's categories is persisted all the same: the record step appends
\* a row of the owner with its date and amount, category "misc", and the
\* original label in the notes
C9_CategoryFallback ==
    [][\A u \in Users :
          (last'.op = "record" /\ last'.uid = u) =>
              \A i \in DOMAIN last'.records :
                  LET d == last'.records[i] IN
                  (/\ d.amount # << >>
                   /\ d.amount[1] # 0
                   /\ d.category \notin Range(get_user_categories(cat_rows, u, TRUE))) =>
                      \E j \in (Len(trx) + 1)..Len(trx') :
                          /\ trx'[j].uid = u
                          /\ trx'[j].category = "misc"
                          /\ Contains(trx'[j].notes, <<d.category>>)
                          /\ trx'[j].amount = d.amount[1]
                          /\ trx'[j].date = d.datetime
      ]_vars

\* u1 and u2 each recorded a "pet" draft; u1 had not yet added the category,
\* and both rows were written as "misc" with "pet" in the notes
C9_Witness ==
    /\ last.op = "record"
    /\ last.uid = "u2"
    /\ last.records = <<[datetime |-> D1, category |-> "pet", amount |-> <<-60>>,
                         notes |-> <<"catfood">>]>>
    /\ Len(trx) = 2
    /\ \A j \in 1..2 :
          /\ trx[j].category = "misc"
          /\ trx[j].notes = <<"(", "pet", ")", "catfood">>
    /\ trx[1].uid = "u1"
    /\ trx[2].uid = "u2"

\* C10: the record step writes no row of amount zero; a draft whose amount is
\* zero or does not parse is not appended and the reply reports it as skipped,
\* and every other draft of the message is appended
C10_ZeroSkipped ==
    [][(last'.op = "record" /\ last'.records # << >>) =>
          LET records == last'.records
              valid == {i \in DOMAIN records :
                           records[i].amount # << >> /\ records[i].amount[1] # 0}
          IN  /\ \A j \in (Len(trx) + 1)..Len(trx') : trx'[j].amount # 0
              /\ Len(trx') = Len(trx) + Cardinality(valid)
              /\ \A i \in DOMAIN records \ valid :
                    /\ last'.reply = "summary"
                    /\ Len(last'.lines) = Len(records)
                    /\ last'.lines[i] \in {"zero", "bad"}
      ]_vars

\* a message of two drafts, the first with an amount that does not parse:
\* the second was appended, and the reply is the error text, not the summary
C10_Witness ==
    /\ last.op = "record"
    /\ last.records = <<Bad, Jipai>>
    /\ last.lines = <<"bad", "written">>
    /\ last.reply = "error"
    /\ Len(trx) = 1
    /\ trx[1].amount = -80

-----------------------------------------------------------------------------
(* SpecRecordFault: the record pipeline where reads of the Categories      *)
(* sheet and append_row calls on the Transactions sheet may raise          *)

FaultAnswers ==
    {Answer("json", "success", q) : q \in SeqsUpTo({Jipai, Salary}, MaxDrafts)}

FaultMsgs ==
    {<<(<<"lunch">>), "RECORD">>, <<(<<"delete">>), "DELETE">>}

NextRecordFault ==
    \/ MsgRecord(Users, FaultMsgs, FaultAnswers, TRUE, MaxRows)
    \/ MsgDeleteLast(Users, FaultMsgs, TRUE)

SpecRecordFault == Init /\ [][NextRecordFault]_vars

\* the drafts of a record with a parsable non-zero amount
ValidDrafts(records) ==
    {i \in DOMAIN records : records[i].amount # << >> /\ records[i].amount[1] # 0}

\* C11: when the append of draft i of a record message fails, the drafts
\* before i that were appended stay in the ledger and the drafts after i are
\* still appended, in input order: the step appends every valid draft but i
C11_SiblingsStillWritten ==
    [][\A i \in 1..MaxDrafts :
          (last'.op = "record" /\ last'.failed = {i}) =>
              LET records == last'.records
                  rest == SelectIdx(records, ValidDrafts(records) \ {i}, 1)
              IN  /\ Len(trx') = Len(trx) + Len(rest)
                  /\ \A j \in DOMAIN trx : trx'[j] = trx[j]
                  /\ \A k \in DOMAIN rest :
                        /\ trx'[Len(trx) + k].amount = rest[k].amount[1]
                        /\ trx'[Len(trx) + k].notes = rest[k].notes
      ]_vars

\* the append of the first of two drafts raised, and the second draft was
\* not written either
C11_Witness ==
    /\ last.op = "record"
    /\ last.records = <<Jipai, Salary>>
    /\ last.failed = {1}
    /\ last.reply = "error"
    /\ header = NewHeader
    /\ confirms = [t \in Threads |-> NoConfirm]
    /\ trx = << >>

-----------------------------------------------------------------------------
(* SpecCategories: two users add and delete custom categories and record   *)
(* drafts that carry a custom category; every Ledger Store call succeeds   *)

CategoryMsgs ==
    ({<<"addcat", "pet">>, <<"addcat", "tenletters">>, <<"addcat", "longname">>,
      <<"addcat", "food">>, <<"addcat", "">>, <<"addcat">>,
      <<"delcat", "pet">>, <<"delcat", "food">>, <<"delcat">>}
        \X {"MANAGE_CATEGORIES"})
    \cup {<<(<<"catfood", "60">>), "RECORD">>}

CategoryAnswers == {Answer("json", "success", <<Pet>>)}

NextCategories ==
    \/ MsgAddCategory(Users, CategoryMsgs, FALSE)
    \/ MsgDeleteCategory(Users, CategoryMsgs, FALSE)
    \/ MsgRecord(Users, CategoryMsgs, CategoryAnswers, FALSE, MaxRows)

SpecCategories == Init /\ [][NextCategories]_vars

\* the categories a user may record under on the Categories sheet as it is
EffectiveSet(rows, uid) ==
    Range(DEFAULT_CATEGORIES)
    \cup {rows[k].category : k \in {j \in DOMAIN rows : rows[j].uid = uid}}

\* C12: a record is validated against the categories its owner has when it
\* is persisted: a draft whose category is a default or a custom category
\* the owner holds at that moment is written with it unchanged, every other
\* draft (a category the owner removed, or only another owner holds) is
\* written with the fallback category
C12_CurrentCategories ==
    [][(last'.op = "record" /\ last'.reply = "summary") =>
          LET records == last'.records
              mine == EffectiveSet(cat_rows, last'.uid)
          IN  /\ Len(trx') = Len(trx) + Len(records)
              /\ \A k \in DOMAIN records :
                    trx'[Len(trx) + k].category =
                        IF records[k].category \in mine
                        THEN records[k].category ELSE FallbackCategory
      ]_vars

\* u1 recorded a pet draft while holding the custom category, removed the
\* category and recorded the draft again; u2 holds the category meanwhile
C12_Witness ==
    /\ last.op = "record" /\ last.uid = "u1"
    /\ Len(trx) = 2
    /\ trx[1].uid = "u1" /\ trx[1].category = "pet"
    /\ trx[2].uid = "u1" /\ trx[2].category = FallbackCategory
    /\ cat_rows = <<[uid |-> "u2", category |-> "pet"]>>

-----------------------------------------------------------------------------
(* SpecBudget: two users set budgets and record expenses and an income in  *)
(* the month of the messages; the calls handle_set_budget makes may raise  *)

\* the month every message of the model is sent in
EventMonth == <<2025, 11>>

Noodles == Draft(D1, "food", <<-82>>, <<"noodles">>)

BudgetMsgs ==
    ({<<"setbudget", "food", "80">>, <<"budget", "food", "180">>,
      <<"budget", "food", "0">>, <<"budget", "drink", "60">>,
      <<"budget", "income", "80">>, <<"budget", "pet", "80">>,
      <<"setbudget">>} \X {"MANAGE_BUDGET"})
    \cup {<<(<<"lunch">>), "RECORD">>}

BudgetAnswers ==
    {Answer("json", "success", <<d>>) : d \in {Jipai, Noodles, Salary}}

NextBudget ==
    \/ MsgSetBudget({"u1"}, BudgetMsgs, TRUE)
    \/ MsgSetBudget({"u2"}, {<<(<<"setbudget", "food", "80">>), "MANAGE_BUDGET">>},
                    FALSE)
    \/ MsgRecord(Users, BudgetMsgs, BudgetAnswers, FALSE, MaxRows)

SpecBudget == Init /\ [][NextBudget]_vars

\* the warning the check gives for the k-th row of ledger rows once that row
\* is written
WarningAfter(rows, k) ==
    check_budget_warning(SubSeq(rows, 1, k), budget_rows, rows[k].uid,
                         rows[k].category, EventMonth, TRUE)

\* C13: every expense draft a record message writes is followed by one
\* budget check on the month total that includes it, and a total at or
\* above 90% of the limit puts a warning in the reply; an income draft
\* brings no warning
C13_WarningInReply ==
    [][last'.op = "record" =>
          LET new == (Len(trx) + 1)..Len(trx')
              due == {k \in new : /\ trx'[k].amount < 0
                                  /\ WarningAfter(trx', k).kind # "none"}
          IN  Len(last'.warnings) = Cardinality(due)
      ]_vars

\* u1 with a food budget of 80 has just recorded a food expense of 82, and
\* the reply carries no warning
C13_Witness ==
    /\ last.op = "record" /\ last.uid = "u1" /\ last.reply = "summary"
    /\ last.records = <<Noodles>>
    /\ trx = <<RowOf(Noodles, "u1", DEFAULT_CATEGORIES)>>
    /\ LimitOf(budget_rows, "u1", "food") = 80
    /\ WarningAfter(trx, 1).kind = "over"
    /\ last.warnings = << >>

-----------------------------------------------------------------------------
(* SpecCheck: check_budget_warning applied to the ledgers and budget       *)
(* sheets of a bounded set, for either user and an expense or the income   *)
(* category                                                                *)

LastMonth == <<2025, 10, 31>>

Row(uid, category, amount, date) ==
    [date |-> date, category |-> category, amount |-> amount, uid |-> uid,
     notes |-> <<"x">>]

CheckRows ==
    {Row("u1", "food", a, d) : a \in {-2700, -400, -1000, -75, 2700},
                               d \in {D1, LastMonth}}
    \cup {Row("u2", "food", -2700, D1), Row("u1", "drink", -2700, D1)}

BudgetRow(uid, category, limit) ==
    [uid |-> uid, category |-> category, limit |-> limit]

CheckBudgets ==
    {<< >>,
     <<BudgetRow("u1", "food", 3000)>>,
     <<BudgetRow("u1", "food", 0)>>,
     <<BudgetRow("u2", "food", 3000)>>,
     <<BudgetRow("u2", "food", 180), BudgetRow("u1", "food", 3000)>>,
     <<BudgetRow("u1", "drink", 180), BudgetRow("u1", "food", 3000)>>}

InitCheck ==
    /\ header = NewHeader
    /\ confirms = [t \in Threads |-> NoConfirm]
    /\ trx \in SeqsUpTo(CheckRows, MaxRows)
    /\ cat_rows = << >>
    /\ budget_rows \in CheckBudgets
    /\ delete_preview_cache = [u \in Users |-> NoPreview]
    /\ now = 0
    /\ ticks = 0
    /\ pv = [u \in Users |-> NoPv]
    /\ msg = << >>
    /\ user_intent = ""
    /\ replied = << >>
    /\ last = Obs("init", "", "")

\* one call of check_budget_warning: msg is the category it is called with,
\* last.warnings holds what it returns
BudgetCheck(users, categories) ==
    \E uid \in users, category \in categories :
        LET w == check_budget_warning(trx, budget_rows, uid, category,
                                      EventMonth, TRUE)
        IN  /\ last' = [Obs("check", uid, w.kind) EXCEPT !.warnings = <<w>>]
            /\ msg' = <<category>>
            /\ user_intent' = ""
            /\ replied' = << >>
            /\ UNCHANGED <<header, confirms, trx, cat_rows, budget_rows, delete_preview_cache,
                           now, ticks, pv>>

NextCheck == BudgetCheck(Users, {"food", "income"})

SpecCheck == InitCheck /\ [][NextCheck]_vars

\* the sum of the magnitudes of the amounts of the rows of s with index in S
RECURSIVE Magnitudes(_, _)
Magnitudes(s, S) ==
    IF S = {} THEN 0
    ELSE LET i == CHOOSE k \in S : TRUE
         IN  (IF s[i].amount < 0 THEN -s[i].amount ELSE s[i].amount)
             + Magnitudes(s, S \ {i})

\* C14: the budget check gives no warning for the income category, for a
\* pair without a budget row and for a limit <= 0; otherwise, with spent
\* the sum of the magnitudes of the owner's negative rows of the category
\* in the month, spent >= limit gives OverBudget with spent - limit,
\* 0.9 * limit <= spent < limit gives NearLimit with limit - spent and the
\* percentage used, and a smaller spent gives no warning
C14_BudgetCheckResult ==
    last.op = "check" =>
        LET uid == last.uid
            category == msg[1]
            w == last.warnings[1]
            B == {i \in DOMAIN budget_rows :
                     /\ budget_rows[i].uid = uid
                     /\ budget_rows[i].category = category}
            limit == budget_rows[CHOOSE i \in B : TRUE].limit
            spent == Magnitudes(trx,
                         {i \in DOMAIN trx :
                             /\ trx[i].uid = uid
                             /\ trx[i].category = category
                             /\ trx[i].amount < 0
                             /\ trx[i].date[1] = EventMonth[1]
                             /\ trx[i].date[2] = EventMonth[2]})
        IN  IF category = "income" \/ B = {} THEN w.kind = "none"
            ELSE IF limit <= 0 THEN w.kind = "none"
            ELSE IF spent >= limit
            THEN w.kind = "over" /\ w.amount = spent - limit
            ELSE IF 10 * spent >= 9 * limit
            THEN /\ w.kind = "near"
                 /\ w.amount = limit - spent
                 /\ 2 * w.percent * limit <= 200 * spent + limit
                 /\ 2 * w.percent * limit >= 200 * spent - limit
            ELSE w.kind = "none"

\* limit 3000 and 2700 spent this month: NearLimit, 300 remaining, 90%
C14_Witness ==
    /\ last.op = "check" /\ last.uid = "u1" /\ msg = <<"food">>
    /\ LimitOf(budget_rows, "u1", "food") = 3000
    /\ Spent(trx, "u1", "food", EventMonth) = 2700
    /\ last.warnings = <<[kind |-> "near", amount |-> 300, percent |-> 90]>>

-----------------------------------------------------------------------------
(* Properties of the Budgets sheet *)

\* the rows of a sheet of budgets that belong to the pair
PairRows(rows, uid, category) ==
    {i \in DOMAIN rows : rows[i].uid = uid /\ rows[i].category = category}

\* C15: setting a budget is an upsert on (owner, category): the sheet never
\* holds two rows of one pair; a set for a pair that has a row overwrites
\* the limit of that row, a set for a new pair appends one row, every other
\* row stays as it was; a set that is refused or fails changes nothing
C15_BudgetUpsert ==
    [][last'.op = "set_budget" =>
          /\ \A i, j \in DOMAIN budget_rows' :
                (/\ budget_rows'[i].uid = budget_rows'[j].uid
                 /\ budget_rows'[i].category = budget_rows'[j].category) => i = j
          /\ IF last'.reply \in {"set", "updated"}
             THEN LET old == PairRows(budget_rows, last'.uid, msg'[2])
                      row == [uid |-> last'.uid, category |-> msg'[2],
                              limit |-> IntOf(msg'[3])]
                  IN  IF old = {}
                      THEN last'.reply = "set"
                           /\ budget_rows' = Append(budget_rows, row)
                      ELSE /\ last'.reply = "updated"
                           /\ Len(budget_rows') = Len(budget_rows)
                           /\ \A i \in DOMAIN budget_rows :
                                 budget_rows'[i] =
                                     IF i \in old THEN row ELSE budget_rows[i]
             ELSE budget_rows' = budget_rows
      ]_vars

\* u1 has overwritten the food budget of 80 by 180 on a sheet that holds the
\* rows of two other pairs
C15_Witness ==
    /\ last.op = "set_budget" /\ last.uid = "u1" /\ last.reply = "updated"
    /\ msg = <<"budget", "food", "180">>
    /\ budget_rows = <<BudgetRow("u2", "food", 80), BudgetRow("u1", "food", 180),
                       BudgetRow("u1", "drink", 60)>>

-----------------------------------------------------------------------------
(* Properties of the Category Registry *)

\* a sequence without repetitions
NoDuplicates(s) == \A i, j \in DOMAIN s : s[i] = s[j] => i = j

\* C16: adding a custom category succeeds exactly when the name is not
\* empty, has at most 10 characters and is not among the owner's effective
\* categories; it then appends one row, and the owner's effective
\* categories are the previous ones followed by the name, the defaults
\* first and nothing twice; a duplicate or invalid name is refused and
\* leaves the sheet as it was
C16_AddCustom ==
    [][(last'.op = "add_category" /\ Len(msg') = 2) =>
          LET uid == last'.uid
              name == msg'[2]
              before == get_user_categories(cat_rows, uid, TRUE)
              after == get_user_categories(cat_rows', uid, TRUE)
              valid == \E p \in NameTable :
                          p[1] = name /\ 1 <= p[2] /\ p[2] <= MaxNameLen
              fresh == name \notin EffectiveSet(cat_rows, uid)
          IN  /\ last'.reply = "added" <=> (valid /\ fresh)
              /\ last'.reply = "added" =>
                    /\ cat_rows' = Append(cat_rows, [uid |-> uid, category |-> name])
                    /\ after = Append(before, name)
                    /\ SubSeq(after, 1, Len(DEFAULT_CATEGORIES)) = DEFAULT_CATEGORIES
                    /\ NoDuplicates(after)
              /\ last'.reply # "added" =>
                    /\ cat_rows' = cat_rows
                    /\ ~valid => last'.reply \in {"empty", "too_long"}
                    /\ (valid /\ ~fresh) => last'.reply \in {"is_default", "exists"}
      ]_vars

\* u1, holding 'pet', has added a name of exactly 10 characters
C16_Witness ==
    /\ last.op = "add_category" /\ last.uid = "u1" /\ last.reply = "added"
    /\ msg = <<"addcat", "tenletters">>
    /\ get_user_categories(cat_rows, "u1", TRUE)
           = DEFAULT_CATEGORIES \o <<"pet", "tenletters">>

\* C17: removing a default category is refused as protected, removing a
\* name the owner has no custom row for is answered not-found, and both
\* leave the sheet as it was; otherwise exactly one row goes, the
\* highest-index row of that owner with that name, and never a row of
\* another owner
C17_RemoveCustom ==
    [][(last'.op = "delete_category" /\ Len(msg') = 2) =>
          LET uid == last'.uid
              name == msg'[2]
              mine == {i \in DOMAIN cat_rows :
                          /\ cat_rows[i].uid = uid
                          /\ cat_rows[i].category = name}
              top == CHOOSE i \in mine : \A j \in mine : j <= i
          IN  IF name \in Range(DEFAULT_CATEGORIES)
              THEN last'.reply = "is_default" /\ cat_rows' = cat_rows
              ELSE IF mine = {}
              THEN last'.reply = "not_found" /\ cat_rows' = cat_rows
              ELSE /\ last'.reply = "deleted"
                   /\ cat_rows' = RemoveAt(cat_rows, top)
      ]_vars

\* u1 has removed its custom category from a sheet where u2's row of the
\* same name comes last; u2's row is still there
C17_Witness ==
    /\ last.op = "delete_category" /\ last.uid = "u1" /\ last.reply = "deleted"
    /\ msg = <<"delcat", "pet">>
    /\ cat_rows = <<[uid |-> "u1", category |-> "tenletters"],
                    [uid |-> "u2", category |-> "pet"]>>

-----------------------------------------------------------------------------
(* SpecRouter: every path of handle_message for user u1: the help          *)
(* shortcut, the sheets failing to open, every branch of the router, a     *)
(* handler raising; the classification of a noise text and of a record     *)
(* text may give any label or fail; every Ledger Store call succeeds       *)

NoiseTexts == {<<"...">>}

\* what the classification call can give
Outcomes == Intents \cup {"error", "nonjson"}

RouterMsgs ==
    ((NoiseTexts \cup {<<"jipai", "80">>}) \X Outcomes)
    \cup ({<<"help">>, <<"delete">>, <<"delete", "jipai">>,
            <<"confirm", "delete">>} \X {"DELETE"})
    \cup ({<<"addcat", "pet">>, <<"delcat", "pet">>} \X {"MANAGE_CATEGORIES"})
    \cup {<<(<<"setbudget", "food", "80">>), "MANAGE_BUDGET">>}

RouterAnswers ==
    SmallAnswers \cup {Answer("nonjson", "", << >>)}

ChatAnswers == {Answer("error", "", << >>), Answer("text", "", << >>)}

NextRouter ==
    \/ MsgHelpShortcut({"u1"}, RouterMsgs)
    \/ MsgNoSheets({"u1"}, RouterMsgs)
    \/ MsgConfirm({"u1"}, RouterMsgs, {})
    \/ MsgDeleteLast({"u1"}, RouterMsgs, FALSE)
    \/ MsgPreview({"u1"}, RouterMsgs, SearchAnswers, FALSE)
    \/ MsgRecord({"u1"}, RouterMsgs, RouterAnswers, FALSE, MaxRows)
    \/ MsgAddCategory({"u1"}, RouterMsgs, FALSE)
    \/ MsgDeleteCategory({"u1"}, RouterMsgs, FALSE)
    \/ MsgSetBudget({"u1"}, RouterMsgs, FALSE)
    \/ MsgReplyOnly({"u1"}, RouterMsgs)
    \/ MsgChat({"u1"}, RouterMsgs, ChatAnswers)
    \/ MsgHandlerRaises({"u1"}, RouterMsgs)

SpecRouter == Init /\ [][NextRouter]_vars

\* C18: a message that is nothing but punctuation is treated as CHAT,
\* whatever label the oracle gives it: it goes to the chat handler, no
\* extraction is attempted and the ledger gets no row
C18_NoiseIsChat ==
    [][(msg' \in NoiseTexts /\ user_intent' # "") =>
          (last'.op = "chat" /\ trx' = trx)
      ]_vars

\* the oracle labelled "..." a record, the extraction answered a draft, and
\* the draft is in the ledger
C18_Witness ==
    /\ msg \in NoiseTexts /\ user_intent = "RECORD"
    /\ last.op = "record" /\ last.reply = "summary"
    /\ trx # << >>

\* the replies that tell the user the request failed
FailureReplies == {"error", "json_error", "apology", "nlp_failure"}

\* C19: when an oracle call made for a message fails or answers text that
\* is no JSON (the classification, the extraction or the chat call), the
\* reply is a failure message and no row of the ledger, the budgets or the
\* categories is added, changed or deleted
C19_OracleFailure ==
    [][(\/ user_intent' \in {"error", "nonjson"}
        \/ last'.oracle \in {"error", "nonjson"}) =>
          /\ last'.reply \in FailureReplies
          /\ trx' = trx
          /\ cat_rows' = cat_rows
          /\ budget_rows' = budget_rows
      ]_vars

\* the classification of "jipai 80" raised, the extraction answered a
\* draft, and the draft is in the ledger
C19_Witness ==
    /\ msg = <<"jipai", "80">> /\ user_intent = "error"
    /\ last.op = "record" /\ last.oracle = "json" /\ last.reply = "summary"
    /\ trx # << >>

\* C20: handling one text message sends exactly one reply on every path:
\* the help shortcut, the workbook or a worksheet failing to open, every
\* branch of the router, a handler raising
C20_OneReply == last.op # "init" => Len(replied) = 1

\* a handler raised and the apology went out as the one reply
C20_Witness ==
    /\ last.op = "search" /\ last.reply = "apology"
    /\ user_intent = "QUERY_DATA"
    /\ replied = <<"final">>

-----------------------------------------------------------------------------
(* SpecPure: _parse_amount_expr and _try_collapse_add_expr_from_text       *)
(* applied to the texts of a bounded set and to drafts of the oracle       *)

MaxExprLen == 3

Refund == Draft(D1, "food", <<60>>, <<"refund">>)

\* "a" is a word: a character no expression has
PureTexts ==
    SeqsUpTo({"3", "2", "x", "+", "**", "a"}, MaxExprLen)
    \cup {<<"59", "x", "2">>, <<"59", "X", "2">>,
          <<"180", "+", "60", "+", "135">>,
          <<"a", "180", "+", "60", "+", "135">>}

InitPure ==
    /\ header = NewHeader
    /\ confirms = [t \in Threads |-> NoConfirm]
    /\ trx = << >>
    /\ cat_rows = << >>
    /\ budget_rows = << >>
    /\ delete_preview_cache = [u \in Users |-> NoPreview]
    /\ now = 0
    /\ ticks = 0
    /\ pv = [u \in Users |-> NoPv]
    /\ msg \in PureTexts
    /\ user_intent = ""
    /\ replied = << >>
    /\ last = Obs("init", "", "")

\* one call of _parse_amount_expr on the text: last.total is the number it
\* returns, the reply "none" stands for None
Evaluate ==
    LET r == parse_amount_expr(msg)
    IN  /\ last' = [Obs("eval", "", IF r.ok THEN "number" ELSE "none")
                        EXCEPT !.total = r.val]
        /\ UNCHANGED <<header, confirms, trx, cat_rows, budget_rows,
                       delete_preview_cache, now, ticks, pv, msg, user_intent,
                       replied>>

\* the collapse as handle_nlp_record calls it on the text and the drafts of
\* the oracle
Collapse ==
    \E records \in SeqsUpTo({Jipai, Noodles, Refund, Pet, Bad}, MaxDrafts) :
        /\ last' = [Obs("collapse", "", "") EXCEPT
                        !.drafts = records,
                        !.records = try_collapse(msg, records)]
        /\ UNCHANGED <<header, confirms, trx, cat_rows, budget_rows,
                       delete_preview_cache, now, ticks, pv, msg, user_intent,
                       replied>>

NextPure == Evaluate \/ Collapse

SpecPure == InitPure /\ [][NextPure]_vars

\* the characters an amount expression may have, 'x' and 'X' among them
InCharset(t) ==
    \A i \in DOMAIN t :
        t[i] \in NumTokens \cup {"+", "-", "*", "**", "x", "X", "fw+", "fw-", "fw*"}

\* C24: 'x' and 'X' multiply, so '59x2' is 118 and '180+60+135' is 375; a
\* text with a character that is no digit, '+', '-', '*', '.' or white
\* space is no expression; exponentiation is never evaluated: '3**2' is
\* rejected
C24_Evaluator ==
    last.op = "eval" =>
        /\ msg \in {<<"59", "x", "2">>, <<"59", "X", "2">>} =>
              (last.reply = "number" /\ last.total = 118)
        /\ msg = <<"180", "+", "60", "+", "135">> =>
              (last.reply = "number" /\ last.total = 375)
        /\ ~InCharset(msg) => last.reply = "none"
        /\ "**" \in Range(msg) => last.reply = "none"

\* '3**2' has been evaluated to 9
C24_Witness ==
    /\ last.op = "eval" /\ msg = <<"3", "**", "2">>
    /\ last.reply = "number" /\ last.total = 9

\* C25: drafts of the oracle, at least 2, all of one category, for a text
\* that from its first digit on is one expression, are replaced by a single
\* draft: its amount is the value of the expression with the sign of the
\* majority of the drafts, its note the text before the first digit; fewer
\* than 2 drafts, differing categories or a suffix that is no expression
\* (an exponentiation is none) leave the drafts as they are
C25_Collapse ==
    last.op = "collapse" =>
        LET drafts == last.drafts
            out == last.records
            m == FirstDigit(msg)
            suffix == SubSeq(msg, m, Len(msg))
            is_expr == /\ m # 0
                       /\ "**" \notin Range(suffix)
                       /\ parse_amount_expr(suffix).ok
            one_cat == \A i, j \in DOMAIN drafts :
                           drafts[i].category = drafts[j].category
            incomes == {i \in DOMAIN drafts :
                           Parses(drafts[i].amount) /\ FloatOf(drafts[i].amount) > 0}
            expenses == {i \in DOMAIN drafts :
                            Parses(drafts[i].amount) /\ FloatOf(drafts[i].amount) < 0}
            val == parse_amount_expr(suffix).val
        IN  IF Len(drafts) >= 2 /\ one_cat /\ is_expr
            THEN /\ Len(out) = 1
                 /\ out[1].category = drafts[1].category
                 /\ out[1].notes = SubSeq(msg, 1, m - 1)
                 /\ Cardinality(expenses) > Cardinality(incomes)
                       => out[1].amount = <<-val>>
                 /\ Cardinality(incomes) > Cardinality(expenses)
                       => out[1].amount = <<val>>
            ELSE out = drafts

\* two food expenses for the text '3**2' have become one expense of 9
C25_Witness ==
    /\ last.op = "collapse" /\ msg = <<"3", "**", "2">>
    /\ last.drafts = <<Jipai, Noodles>>
    /\ Len(last.records) = 1
    /\ last.records[1].amount = <<-9>>

-----------------------------------------------------------------------------
(* SpecReport: two users record incomes and expenses of this month and of  *)
(* the month before, delete their last rows and ask for the total and the  *)
(* month report; every Ledger Store call succeeds                          *)

OldLunch == Draft(LastMonth, "food", <<-60>>, <<"lunch">>)

ReportMsgs ==
    ({<<"chazhang">>, <<"yuejie">>} \X {"QUERY_REPORT"})
    \cup {<<(<<"lunch">>), "RECORD">>, <<(<<"delete">>), "DELETE">>}

ReportRows == MaxRows + 1

NextReport ==
    \/ MsgRecord(Users, ReportMsgs,
            {Answer("json", "success", <<d>>) : d \in {Jipai, Pet, Salary, OldLunch}},
            FALSE, ReportRows)
    \/ MsgDeleteLast(Users, ReportMsgs, FALSE)
    \/ MsgReport(Users, ReportMsgs, FALSE)

SpecReport == Init /\ [][NextReport]_vars

\* the rows of the owner dated in the month
RowsOfMonth(uid, month) ==
    {i \in DOMAIN trx :
        /\ trx[i].uid = uid
        /\ Len(trx[i].date) = 3
        /\ trx[i].date[1] = month[1] /\ trx[i].date[2] = month[2]}

\* C21: the month report of an owner gives income = the sum of the owner's
\* positive amounts of the month, expense = the sum of the magnitudes of
\* the negative ones and net = income - expense, whatever rows other
\* owners or other months hold
C21_MonthReport ==
    (last.op = "monthly" /\ RowsOfMonth(last.uid, EventMonth) # {}) =>
        LET S == RowsOfMonth(last.uid, EventMonth)
            I == Magnitudes(trx, {i \in S : trx[i].amount > 0})
            E == Magnitudes(trx, {i \in S : trx[i].amount < 0})
        IN  /\ last.reply = "report"
            /\ Len(last.report) = 1
            /\ last.report[1].income = I
            /\ last.report[1].expense = E
            /\ last.report[1].net = I - E

\* u1 holds an income of 180 and an expense of 80 of this month and asked
\* for the month report: the reply is the error text
C21_Witness ==
    /\ last.op = "monthly" /\ last.uid = "u1" /\ last.reply = "error"
    /\ Len(trx) = 2
    /\ \A i \in DOMAIN trx : trx[i].uid = "u1"
    /\ {trx[i].amount : i \in DOMAIN trx} = {180, -80}

\* C22: the total report of an owner gives income = the sum of the owner's
\* positive amounts, expense = the sum of the magnitudes of the owner's
\* other amounts, net = income - expense and, per category, the sum of the
\* magnitudes of the owner's expenses of the category; rows of other owners
\* do not enter it (an owner without amounts gets the no-records reply)
C22_TotalReport ==
    last.op = "total" =>
        LET mine == {i \in DOMAIN trx : trx[i].uid = last.uid}
            I == Magnitudes(trx, {i \in mine : trx[i].amount > 0})
            E == Magnitudes(trx, {i \in mine : trx[i].amount < 0})
            cats == {trx[i].category : i \in {j \in mine : trx[j].amount < 0}}
        IN  IF I = 0 /\ E = 0
            THEN last.reply = "empty" /\ last.report = << >>
            ELSE /\ last.reply = "report"
                 /\ Len(last.report) = 1
                 /\ last.report[1].income = I
                 /\ last.report[1].expense = E
                 /\ last.report[1].net = I - E
                 /\ DOMAIN last.report[1].by_category = cats
                 /\ \A c \in cats :
                        last.report[1].by_category[c] =
                            Magnitudes(trx, {i \in mine : trx[i].amount < 0
                                                /\ trx[i].category = c})

\* u1 holds an income of 180 and an expense of 80, u2 holds another row,
\* and u1 got the total report
C22_Witness ==
    /\ last.op = "total" /\ last.uid = "u1" /\ last.reply = "report"
    /\ Len(trx) = 3
    /\ \E i \in DOMAIN trx : trx[i].uid = "u2"
    /\ last.report[1].income = 180 /\ last.report[1].expense = 80
    /\ last.report[1].net = 100

-----------------------------------------------------------------------------
(* SpecHeader: the Transactions sheet carries the column names of this     *)
(* version or those of the earlier one; two users record rows of this      *)
(* month, of the month before and without a date, preview deletes by       *)
(* keyword and by date range, confirm them and ask for advice; every       *)
(* Ledger Store call succeeds                                              *)

\* a draft whose datetime the extraction oracle left empty
Undated == Draft(<< >>, "food", <<-59>>, <<"jipai">>)

HeaderMsgs ==
    {<<(<<"jipai", "80">>), "RECORD">>, <<(<<"delete", "jipai">>), "DELETE">>,
     <<(<<"confirm", "delete">>), "DELETE">>, <<(<<"advice">>), "QUERY_ADVICE">>}

HeaderAnswers ==
    {[NoCriteria EXCEPT !.keyword = <<"jipai">>],
     [NoCriteria EXCEPT !.start_date = D1, !.end_date = D2],
     [NoCriteria EXCEPT !.keyword = <<"lunch">>, !.start_date = D1]}

InitHeader ==
    /\ header \in {NewHeader, LegacyHeader}
    /\ confirms = [t \in Threads |-> NoConfirm]
    /\ trx = << >>
    /\ cat_rows = << >>
    /\ budget_rows = << >>
    /\ delete_preview_cache = [u \in Users |-> NoPreview]
    /\ now = 0
    /\ ticks = 0
    /\ pv = [u \in Users |-> NoPv]
    /\ msg = << >>
    /\ user_intent = ""
    /\ replied = << >>
    /\ last = Obs("init", "", "")

NextHeader ==
    \/ MsgRecord(Users, HeaderMsgs,
            {Answer("json", "success", <<d>>) : d \in {Jipai, OldLunch, Undated}},
            FALSE, MaxRows)
    \/ MsgPreview(Users, HeaderMsgs, HeaderAnswers, FALSE)
    \/ MsgConfirm(Users, HeaderMsgs, {})
    \/ MsgAdvice(Users, HeaderMsgs, EventMonth, FALSE)

SpecHeader == InitHeader /\ [][NextHeader]_vars

\* the column names of the other version
OtherHeader(h) == IF h = NewHeader THEN LegacyHeader ELSE NewHeader

\* C23: the delete-preview scan selects the same rows, and the per-month
\* expense aggregation computes the same totals, whether the timestamp
\* column of the sheet is named "date" or "time"
C23_ColumnName ==
    /\ (last.op = "preview" /\ last.reply = "preview") =>
          LET p == pv[last.uid]
          IN  delete_preview_cache[last.uid].all_rows =
                MatchedRows(ReadUnder(OtherHeader(header), trx), last.uid,
                            p.keyword, p.start_date, p.end_date)
    /\ (last.op = "advice" /\ last.reply = "advice") =>
          last.report =
            <<get_spending_data_for_month(trx, OtherHeader(header), last.uid, EventMonth),
              get_spending_data_for_month(trx, OtherHeader(header), last.uid, PrevMonth(EventMonth))>>

\* on a sheet of the earlier version u1 previewed a date range that one of
\* two rows lies in
C23_Witness ==
    /\ header = LegacyHeader
    /\ last.op = "preview" /\ last.uid = "u1" /\ last.reply = "preview"
    /\ pv["u1"].start_date = D1
    /\ Len(trx) = 2
    /\ Len(delete_preview_cache["u1"].all_rows) = 1

\* the rows of the owner that satisfy the criteria: the keyword is part of
\* the category or of the note, and where a range is given the row has a
\* date and it lies between start_date and end_date, both inclusive
Satisfying(uid, keyword, start_date, end_date) ==
    {i \in DOMAIN trx :
        /\ trx[i].uid = uid
        /\ keyword # << >> =>
              \/ Contains(<<trx[i].category>>, keyword)
              \/ Contains(trx[i].notes, keyword)
        /\ (start_date # << >> \/ end_date # << >>) =>
              /\ Len(trx[i].date) = 3
              /\ start_date # << >> => ~DateLess(trx[i].date, start_date)
              /\ end_date # << >> => ~DateLess(end_date, trx[i].date)}

\* C27: the row references a delete preview collects are exactly the rows
\* of the requesting owner that satisfy the criteria; no row of another
\* owner, and no row whose date is outside the range or missing
C27_PreviewExact ==
    (last.op = "preview" /\ last.reply = "preview") =>
        LET p == pv[last.uid]
        IN  Range(delete_preview_cache[last.uid].all_rows) =
                {i + 1 : i \in Satisfying(last.uid, p.keyword, p.start_date,
                                           p.end_date)}

\* u1 previewed the range D1..D2 and the preview collected a row of u1
\* that has no date
C27_Witness ==
    /\ last.op = "preview" /\ last.uid = "u1" /\ last.reply = "preview"
    /\ pv["u1"].start_date = D1 /\ pv["u1"].end_date = D2
    /\ \E k \in Range(delete_preview_cache["u1"].all_rows) :
          trx[k - 1].uid = "u1" /\ trx[k - 1].date = << >>

-----------------------------------------------------------------------------
(* Properties of the confirm after other operations *)

\* C26: every row a confirm removes belongs to the confirming owner and
\* matches what the owner's preview asked for, whatever records, bare
\* deletes and confirms of any owner came between preview and confirm
C26_ConfirmSafety ==
    [][\A u \in Users :
          (last'.op = "confirm" /\ last'.uid = u /\ last'.reply = "done") =>
              \A n \in DOMAIN last'.calls :
                  LET k == last'.calls[n] - 1 IN
                  (n \notin last'.failed /\ k \in DOMAIN trx) =>
                      /\ trx[k].uid = u
                      /\ RowMatches(trx[k], u, pv[u].keyword, pv[u].start_date,
                                    pv[u].end_date)
      ]_vars

\* the confirm of u1 deleted gspread row 3 of a sheet of two rows on a
\* preview of one match, and the row of u1 that matches is still there
C26_Witness ==
    /\ last.op = "confirm" /\ last.uid = "u1" /\ last.reply = "done"
    /\ last.calls = <<3>>
    /\ Len(trx) = 1
    /\ trx[1].uid = "u1"
    /\ trx[1].notes = <<"jipai">>

-----------------------------------------------------------------------------
(* SpecBudgetText: two users set budgets with texts that put spaces        *)
(* between command word, category and limit and with texts that do not;    *)
(* every sheet call succeeds                                               *)

BudgetTexts ==
    {<<"budgetdrink635">>, <<"budget", "drink635">>, <<"budget", "drink", "635">>,
     <<"setbudget", "food", "80">>, <<"budget", "drink", "60">>,
     <<"budget", "food", "5">>, <<"budget", "income", "80">>}

NextBudgetText == MsgSetBudget(Users, BudgetTexts \X {"MANAGE_BUDGET"}, FALSE)

SpecBudgetText == Init /\ [][NextBudgetText]_vars

\* C28: a set-budget text of the command word, the category "drink" and
\* the number 635, written with no space between them as the usage text
\* shows or with spaces, leaves the Budgets row of (owner, "drink") with
\* the limit 635
C28_NoSeparator ==
    [][(/\ last'.op = "set_budget"
        /\ msg' \in {<<"budgetdrink635">>, <<"budget", "drink635">>,
                     <<"budget", "drink", "635">>}) =>
          \E i \in DOMAIN budget_rows' :
              budget_rows'[i] =
                  [uid |-> last'.uid, category |-> "drink", limit |-> 635]
      ]_vars

\* the text of the usage message was refused as an invalid category
C28_Witness ==
    /\ last.op = "set_budget" /\ last.uid = "u1"
    /\ msg = <<"budgetdrink635">>
    /\ last.reply = "invalid_category"
    /\ budget_rows = << >>

-----------------------------------------------------------------------------
(* SpecReadOnly: user u1 fills the three sheets and the preview store and  *)
(* sends every kind of message that only asks for something; every sheet   *)
(* call succeeds                                                           *)

ReadOnlyMsgs ==
    ({<<"...">>} \X {"HELP", "QUERY_REPORT", "MANAGE_BUDGET", "MANAGE_CATEGORIES",
                     "QUERY_DATA", "QUERY_ADVICE", "UPDATE",
                     "NEW_FEATURE_EXCHANGE_RATE", "CHAT"})
    \cup ({<<"chazhang">>, <<"yuejie">>} \X {"QUERY_REPORT"})
    \cup {<<(<<"help">>), "HELP">>, <<(<<"jipai", "80">>), "RECORD">>,
          <<(<<"delete", "jipai">>), "DELETE">>,
          <<(<<"addcat", "pet">>), "MANAGE_CATEGORIES">>,
          <<(<<"setbudget", "food", "80">>), "MANAGE_BUDGET">>}

NextReadOnly ==
    \/ MsgRecord({"u1"}, ReadOnlyMsgs, {Answer("json", "success", <<Jipai>>)},
                 FALSE, MaxRows)
    \/ MsgPreview({"u1"}, ReadOnlyMsgs, {[NoCriteria EXCEPT !.keyword = <<"jipai">>]},
                  FALSE)
    \/ MsgAddCategory({"u1"}, ReadOnlyMsgs, FALSE)
    \/ MsgSetBudget({"u1"}, ReadOnlyMsgs, FALSE)
    \/ MsgHelpShortcut({"u1"}, ReadOnlyMsgs)
    \/ MsgReplyOnly({"u1"}, ReadOnlyMsgs)
    \/ MsgReport({"u1"}, ReadOnlyMsgs, TRUE)
    \/ MsgAdvice({"u1"}, ReadOnlyMsgs, EventMonth, TRUE)
    \/ MsgChat({"u1"}, ReadOnlyMsgs, ChatAnswers)
    \/ MsgHandlerRaises({"u1"}, ReadOnlyMsgs)

SpecReadOnly == Init /\ [][NextReadOnly]_vars

\* C29: the operations that only ask for something (the UPDATE
\* placeholder, data queries, the total, month and week reports, advice,
\* the budget view, the category listing, help and chat) leave the ledger
\* rows, the Budgets rows, the Categories rows and the pending previews as
\* they were
C29_ReadOnlyFrame ==
    [][last'.op \in ReadOnlyRoutes \cup {"total", "monthly"} =>
          /\ trx' = trx
          /\ budget_rows' = budget_rows
          /\ cat_rows' = cat_rows
          /\ delete_preview_cache' = delete_preview_cache
      ]_vars

\* u1 looked at the budgets while holding a ledger row, a budget, a
\* category of their own and a pending preview
C29_Witness ==
    /\ last.op = "view_budget" /\ last.uid = "u1"
    /\ trx # << >> /\ budget_rows # << >> /\ cat_rows # << >>
    /\ delete_preview_cache["u1"] # NoPreview

-----------------------------------------------------------------------------
(* SpecConcurrent: two users record, u1 previews, and then two confirm     *)
(* messages of u1 are handled by two request threads that take turns at    *)
(* the delete_rows calls; every Ledger Store call succeeds                 *)

ConcurrentMsgs ==
    {<<(<<"jipai", "80">>), "RECORD">>, <<(<<"delete", "jipai">>), "DELETE">>,
     <<(<<"confirm", "delete">>), "DELETE">>,
     <<(<<"confirm", "delete", "1">>), "DELETE">>}

NextConcurrent ==
    \/ MsgRecord(Users, ConcurrentMsgs, {Answer("json", "success", <<Jipai>>)},
                 FALSE, MaxRows)
    \/ /\ \A t \in Threads : confirms[t].phase = "idle"
       /\ MsgPreview({"u1"}, ConcurrentMsgs,
              {[NoCriteria EXCEPT !.keyword = <<"jipai">>]}, FALSE)
    \/ \E t \in Threads : ConfirmBegin(t, {"u1"}, ConcurrentMsgs)
    \/ \E t \in Threads : ConfirmCall(t)
    \/ \E t \in Threads : ConfirmEnd(t)

SpecConcurrent == Init /\ [][NextConcurrent]_vars

\* C30: when two confirm messages of one owner are handled at the same
\* time on one pending preview, taking turns at the Ledger Store calls, the
\* rows they remove are together at most as many as the row references of
\* the preview, and each removed row is a row of the owner that matches
\* what the preview asked for
C30_ConcurrentConfirm ==
    \A t \in Threads :
        confirms[t].refs # << >> =>
            /\ Len(confirms["t1"].done) + Len(confirms["t2"].done)
                    <= Len(confirms[t].refs)
            /\ \A i \in DOMAIN confirms[t].done :
                    RowMatches(confirms[t].done[i], confirms[t].uid,
                               confirms[t].keyword, confirms[t].start_date,
                               confirms[t].end_date)

\* both confirms of u1 ran on a preview of one row reference; together
\* they removed two rows, one of them a row of u2
C30_Witness ==
    /\ \A t \in Threads :
          /\ confirms[t].phase = "finished"
          /\ confirms[t].uid = "u1"
          /\ confirms[t].refs = <<2>>
          /\ Len(confirms[t].done) = 1
    /\ \E t \in Threads : confirms[t].done[1].uid = "u2"

=============================================================================
